---- MODULE Spec2Model ----
(***************************************************************************)
(* BMW GWS gear-lever toggle engine of the PiRacer cluster                 *)
(* (BMW_GWS/modular_version): BMWLeverController driven by lever frames,   *)
(* with the BMWState it mutates.  Times are in milliseconds.               *)
(*                                                                         *)
(* time.time() enters the controller only through the difference           *)
(* current_time - last_toggle_time (line 83).  The model keeps that         *)
(* difference, toggle_age, saturated at TOGGLE_TIMEOUT, in place of the two *)
(* absolute readings: "last_toggle_time = current_time" is toggle_age = 0,  *)
(* and a frame arriving dt later sees toggle_age + dt.                      *)
(***************************************************************************)
EXTENDS Integers, Sequences, FiniteSets, TLC

VARIABLES
    current_gear,                     \* BMWState.current_gear
    manual_gear,                      \* BMWState.manual_gear
    lever_position,                   \* BMWState.lever_position
    park_button,                      \* BMWState.park_button
    unlock_button,                    \* BMWState.unlock_button
    current_lever_position,           \* BMWLeverController.current_lever_position
    previous_lever_position,          \* BMWLeverController.previous_lever_position
    lever_returned_to_center,         \* BMWLeverController.lever_returned_to_center
    lever_returned_to_manual_center,  \* BMWLeverController.lever_returned_to_manual_center
    toggle_age,                       \* time.time() - last_toggle_time, saturated
    arrival_age,                      \* current_time - last_toggle_time on entry of the last frame
    decoded,                          \* return value of the last decode_lever_message
    fired,                            \* the transition processors called for the last frame
    gear_before,                      \* current_gear on entry of the last frame
    run,                              \* the frames processed since the lever was at rest
    rx,                               \* the last message given to _bmw_message_handler
    gws_counter,                      \* CANController.gws_counter
    bmw_bus,                          \* CANController.bmw_bus: "None", "open", "shutdown"
    running,                          \* the running flag of the application
    tx,                               \* the last frame handed to bmw_bus.send
    led_pc,                           \* position of the LED thread in its loop
    pc,                               \* position of each caller inside send_gear_led
    loc,                              \* the locals of each caller of send_gear_led
    writer,                           \* the thread that last wrote current_gear or manual_gear
    pending,                          \* the rest of a lever frame the receiver is in the middle of
    seen,                             \* the pair (current_gear, manual_gear) a reader last took
    CRCCHECK_AVAILABLE,               \* crc_calculator.CRCCHECK_AVAILABLE: import crccheck worked
    bmw_pc,                           \* position of BMWMonitorThread in its loop
    program,                          \* which integrated controller runs the gamepad loop
    piracer_state,                    \* PiRacerState: throttle_input and speed_gear
    throttle,                         \* the last argument of piracer.set_throttle_percent
    toggle_controller,                \* the fields of the BMWToggleGearController instance
    crc_calculator,                   \* CRCCalculator: _cache_3fd and _cache_197
    crc_call                          \* the last call on the CRCCalculator and what it returned

vars == <<current_gear, manual_gear, lever_position, park_button, unlock_button,
          current_lever_position, previous_lever_position,
          lever_returned_to_center, lever_returned_to_manual_center,
          toggle_age, arrival_age, decoded, fired, gear_before, run, rx,
          gws_counter, bmw_bus, running, tx, led_pc, pc, loc,
          writer, pending, seen,
          CRCCHECK_AVAILABLE, bmw_pc,
          program, piracer_state, throttle,
          toggle_controller, crc_calculator, crc_call>>

\* the gamepad loop of the integrated controllers and the vehicle it drives
driveVars == <<program, piracer_state, throttle>>

\* the standalone toggle controller
toggleVars == <<toggle_controller>>

\* the CRC calculator with its two caches
cacheVars == <<crc_calculator, crc_call>>

\* the two callers of send_gear_led taken statement by statement
raceVars == <<pc, loc>>

\* the threads that share BMWState
sharedVars == <<writer, pending, seen>>

\* what the import of crc_calculator found installed
buildVars == <<CRCCHECK_AVAILABLE>>

\* BMWState and the tracker of BMWLeverController, with their history
leverVars == <<current_gear, manual_gear, lever_position, park_button, unlock_button,
               current_lever_position, previous_lever_position,
               lever_returned_to_center, lever_returned_to_manual_center,
               toggle_age, arrival_age, decoded, fired, gear_before, run>>

\* the CAN controller, the bus and the LED thread
busVars == <<rx, gws_counter, bmw_bus, running, tx, led_pc>>

---------------------------------------------------------------------------
\* Constants of the program

TOGGLE_TIMEOUT == 500
MANUAL_GEARS == 8
LEVER_MESSAGE_ID == \h197
LED_MESSAGE_ID == \h3FD
GWS_COUNTER_INIT == \h01
GWS_COUNTER_MAX == \h0E
CRC_POLY == \h1D
CRC_XOR_3FD == \h70
CRC_XOR_197 == \h53

POS_CENTER == \h0E
POS_UP == \h1E
POS_UP_PLUS == \h2E
POS_DOWN == \h3E
POS_SIDE == \h7E
POS_MANUAL_DOWN == \h5E
POS_MANUAL_UP == \h6E

\* A position byte outside lever_position_map
POS_UNMAPPED == \h4E

---------------------------------------------------------------------------
\* Bounds of the model

\* granularity of the clock readings, in ms
\* Overlapping send_gear_led calls can push gws_counter past GWS_COUNTER_MAX
\* without limit; the counter is followed up to this value.
MaxCounterValue == 16

TickMs == 200

\* the time between two frames: inside the debounce window, or exactly the
\* window after a toggle
TimeSteps == {TickMs, TOGGLE_TIMEOUT}

\* current_time - last_toggle_time for a frame arriving dt after a state of age
\* `age`; every value >= TOGGLE_TIMEOUT is kept as TOGGLE_TIMEOUT
Elapsed(age, dt) == IF age + dt >= TOGGLE_TIMEOUT THEN TOGGLE_TIMEOUT ELSE age + dt

Positions == {POS_CENTER, POS_UP, POS_UP_PLUS, POS_DOWN, POS_SIDE,
              POS_MANUAL_DOWN, POS_MANUAL_UP, POS_UNMAPPED}
\* byte 3 of the frame: bit0 park button, bit1 unlock button
ButtonBytes == 0..3

---------------------------------------------------------------------------
\* CRC-8 of crccheck.crc.Crc8Base: width 8, no reflection, _initvalue 0

RECURSIVE XorBits(_, _, _)
XorBits(a, b, n) ==
    IF n = 0 THEN 0
    ELSE (((a % 2) + (b % 2)) % 2) + 2 * XorBits(a \div 2, b \div 2, n - 1)

\* a ^ b on bytes
Xor(a, b) == XorBits(a, b, 8)

\* one shift of the register: the poly is xored in when the top bit falls out
Crc8Shift(crc) ==
    IF crc >= 128 THEN Xor((crc * 2) % 256, CRC_POLY) ELSE (crc * 2) % 256

RECURSIVE Crc8Shifts(_, _)
Crc8Shifts(crc, n) == IF n = 0 THEN crc ELSE Crc8Shifts(Crc8Shift(crc), n - 1)

RECURSIVE Crc8Register(_, _)
Crc8Register(data, n) ==
    IF n = 0 THEN 0 ELSE Crc8Shifts(Xor(Crc8Register(data, n - 1), data[n]), 8)

Crc8(data, xor_output) == Xor(Crc8Register(data, Len(data)), xor_output)

\* BMW3FDCRC.calc(data) & 0xFF with the crccheck library installed
Bmw3fdCrc(data) == Crc8(data, CRC_XOR_3FD) % 256

RECURSIVE Sum(_, _)
Sum(data, n) == IF n = 0 THEN 0 ELSE Sum(data, n - 1) + data[n]

\* BMW3FDCRC.calc(data) & 0xFF without it: "Simple mock CRC calculation"
Bmw3fdMockCrc(data) == Sum(data, Len(data)) % 256

\* BMW197CRC.calc(data) & 0xFF
Bmw197Crc(data) == Crc8(data, CRC_XOR_197) % 256

\* the values a lever frame carries behind its CRC byte, and CRCCalculator's
\* cache of their CRCs
LeverCounters == {1, 2}
\* BMW197CRC.calc(data) & 0xFF without crccheck
Bmw197MockCrc(data) == (Sum(data, Len(data)) + CRC_XOR_197) % 256

cache_197 ==
    [counter \in LeverCounters |->
        [lever_pos \in Positions |->
            [park_btn \in ButtonBytes |-> Bmw197Crc(<<counter, lever_pos, park_btn>>)]]]

---------------------------------------------------------------------------
\* Formatting helpers

HexDigit(d) == <<"0", "1", "2", "3", "4", "5", "6", "7",
                 "8", "9", "A", "B", "C", "D", "E", "F">>[d + 1]

\* f'{b:02X}'
Hex02(b) == HexDigit((b \div 16) % 16) \o HexDigit(b % 16)

\* f'M{n}'
MGear(n) == "M" \o ToString(n)

\* str.startswith('M') over the gear strings the program builds
StartsWithM(gear) == gear \in {MGear(n) : n \in 0..(MANUAL_GEARS + 1)}

\* (byte & mask) != 0 for a single-bit mask
BitSet(byte, mask) == (byte \div mask) % 2 = 1

\* lever_position_map.get(lever_pos, f'Unknown (0x{lever_pos:02X})')
LeverPositionName(lever_pos) ==
    CASE lever_pos = POS_CENTER -> "Center"
      [] lever_pos = POS_UP -> "Up (R)"
      [] lever_pos = POS_UP_PLUS -> "Up+ (Beyond R)"
      [] lever_pos = POS_DOWN -> "Down (D)"
      [] lever_pos = POS_SIDE -> "Side (S)"
      [] lever_pos = POS_MANUAL_DOWN -> "Manual Down (-)"
      [] lever_pos = POS_MANUAL_UP -> "Manual Up (+)"
      [] OTHER -> "Unknown (0x" \o Hex02(lever_pos) \o ")"

ButtonName(pressed) == IF pressed THEN "Pressed" ELSE "Released"

---------------------------------------------------------------------------
\* The controller and the BMWState as one record, threaded through the
\* handlers in the order the code runs them

State ==
    [current_gear |-> current_gear,
     manual_gear |-> manual_gear,
     lever_position |-> lever_position,
     park_button |-> park_button,
     unlock_button |-> unlock_button,
     current_lever_position |-> current_lever_position,
     previous_lever_position |-> previous_lever_position,
     lever_returned_to_center |-> lever_returned_to_center,
     lever_returned_to_manual_center |-> lever_returned_to_manual_center,
     toggle_age |-> toggle_age,
     decoded |-> decoded,
     fired |-> fired]

SetGear(s, gear) == [s EXCEPT !.current_gear = gear]

\* HandleUpToggle without the 'N' entry of gear_transitions
HandleUpToggle_NoReverse(s) ==
    SetGear(s, CASE s.current_gear = "D" -> "N"
                 [] OTHER -> "N")

HandleUpToggle(s) ==
    SetGear(s, CASE s.current_gear = "N" -> "R"
                 [] s.current_gear = "D" -> "N"
                 [] OTHER -> "N")

\* HandleDownToggle without the 'R' entry of gear_transitions
HandleDownToggle_NoNeutral(s) ==
    SetGear(s, CASE s.current_gear = "N" -> "D"
                 [] OTHER -> "D")

HandleDownToggle(s) ==
    SetGear(s, CASE s.current_gear = "N" -> "D"
                 [] s.current_gear = "R" -> "N"
                 [] OTHER -> "D")
\* HandleSideToggle entering Manual at the level manual_gear still holds
HandleSideToggle_KeepLevel(s) ==
    IF s.current_gear = "D"
    THEN SetGear(s, MGear(s.manual_gear))
    ELSE IF StartsWithM(s.current_gear)
    THEN SetGear(s, "D")
    ELSE SetGear(s, "D")

HandleSideToggle(s) ==
    IF s.current_gear = "D"
    THEN SetGear([s EXCEPT !.manual_gear = 1], MGear(1))
    ELSE IF StartsWithM(s.current_gear)
    THEN SetGear(s, "D")
    ELSE SetGear(s, "D")

\* HandleManualUpToggle building the gear string before the increment
HandleManualUpToggle_StaleLevel(s) ==
    IF StartsWithM(s.current_gear) /\ s.manual_gear < MANUAL_GEARS
    THEN SetGear([s EXCEPT !.manual_gear = @ + 1], MGear(s.manual_gear))
    ELSE s

HandleManualUpToggle(s) ==
    IF StartsWithM(s.current_gear) /\ s.manual_gear < MANUAL_GEARS
    THEN SetGear([s EXCEPT !.manual_gear = @ + 1], MGear(s.manual_gear + 1))
    ELSE s

\* HandleManualDownToggle with the bound test off by one (>= 1)
HandleManualDownToggle_OffByOne(s) ==
    IF StartsWithM(s.current_gear) /\ s.manual_gear >= 1
    THEN SetGear([s EXCEPT !.manual_gear = @ - 1], MGear(s.manual_gear - 1))
    ELSE s

HandleManualDownToggle(s) ==
    IF StartsWithM(s.current_gear) /\ s.manual_gear > 1
    THEN SetGear([s EXCEPT !.manual_gear = @ - 1], MGear(s.manual_gear - 1))
    ELSE s

ProcessToggleTransition_UnmappedAsUp(s) ==
    LET t == [s EXCEPT !.fired = @ \cup {"primary"}]
        prev == s.previous_lever_position
    IN CASE prev = POS_UP_PLUS -> SetGear(t, "P")
         [] prev = POS_DOWN -> HandleDownToggle(t)
         [] prev = POS_SIDE -> HandleSideToggle(t)
         [] OTHER -> HandleUpToggle(t)

ProcessToggleTransition(s) ==
    LET t == [s EXCEPT !.fired = @ \cup {"primary"}]
        prev == s.previous_lever_position
    IN CASE prev = POS_UP -> HandleUpToggle(t)
         [] prev = POS_UP_PLUS -> SetGear(t, "P")
         [] prev = POS_DOWN -> HandleDownToggle(t)
         [] prev = POS_SIDE -> HandleSideToggle(t)
         [] OTHER -> t

\* ProcessToggleManualTransition with the 0x5E and 0x6E handlers exchanged
ProcessToggleManualTransition_Swapped(s) ==
    LET t == [s EXCEPT !.fired = @ \cup {"manual"}]
        prev == s.previous_lever_position
    IN CASE prev = POS_MANUAL_DOWN -> HandleManualUpToggle(t)
         [] prev = POS_MANUAL_UP -> HandleManualDownToggle(t)
         [] prev = POS_CENTER -> HandleSideToggle(t)
         [] OTHER -> t

ProcessToggleManualTransition(s) ==
    LET t == [s EXCEPT !.fired = @ \cup {"manual"}]
        prev == s.previous_lever_position
    IN CASE prev = POS_MANUAL_DOWN -> HandleManualDownToggle(t)
         [] prev = POS_MANUAL_UP -> HandleManualUpToggle(t)
         [] prev = POS_CENTER -> HandleSideToggle(t)
         [] OTHER -> t

\* CenterReturn that fires without setting lever_returned_to_center
CenterReturn_FlagNotSet(s, lever_pos) ==
    IF lever_pos = POS_CENTER /\ ~s.lever_returned_to_center
    THEN [ProcessToggleTransition(s) EXCEPT !.toggle_age = 0]
    ELSE IF lever_pos # POS_CENTER
    THEN [s EXCEPT !.lever_returned_to_center = FALSE]
    ELSE s

\* lines 86-92: center return toggle processing
CenterReturn(s, lever_pos) ==
    IF lever_pos = POS_CENTER /\ ~s.lever_returned_to_center
    THEN [ProcessToggleTransition([s EXCEPT !.lever_returned_to_center = TRUE])
            EXCEPT !.toggle_age = 0]
    ELSE IF lever_pos # POS_CENTER
    THEN [s EXCEPT !.lever_returned_to_center = FALSE]
    ELSE s
\* ManualCenterReturn without the elif that clears the flag away from Side
ManualCenterReturn_NeverCleared(s, lever_pos) ==
    IF lever_pos = POS_SIDE /\ ~s.lever_returned_to_manual_center
    THEN [ProcessToggleManualTransition([s EXCEPT !.lever_returned_to_manual_center = TRUE])
            EXCEPT !.toggle_age = 0]
    ELSE s
\* ManualCenterReturn that sets last_toggle_time only when the gear changed
ManualCenterReturn_TimeOnChange(s, lever_pos) ==
    IF lever_pos = POS_SIDE /\ ~s.lever_returned_to_manual_center
    THEN LET t == ProcessToggleManualTransition(
                      [s EXCEPT !.lever_returned_to_manual_center = TRUE])
         IN IF t.current_gear # s.current_gear THEN [t EXCEPT !.toggle_age = 0] ELSE t
    ELSE IF lever_pos # POS_SIDE
    THEN [s EXCEPT !.lever_returned_to_manual_center = FALSE]
    ELSE s

\* lines 94-100: manual center return toggle processing
ManualCenterReturn(s, lever_pos) ==
    IF lever_pos = POS_SIDE /\ ~s.lever_returned_to_manual_center
    THEN [ProcessToggleManualTransition([s EXCEPT !.lever_returned_to_manual_center = TRUE])
            EXCEPT !.toggle_age = 0]
    ELSE IF lever_pos # POS_SIDE
    THEN [s EXCEPT !.lever_returned_to_manual_center = FALSE]
    ELSE s

\* the timeout comparison reversed
Debounced_Reversed(age) == age > TOGGLE_TIMEOUT

\* current_time - self.last_toggle_time < Constants.TOGGLE_TIMEOUT
Debounced(age) == age < TOGGLE_TIMEOUT

\* HandleToggleAction with the timeout check ahead of the button processing
HandleToggleAction_GateFirst(s, lever_pos, park_btn) ==
    LET unlock_pressed == BitSet(park_btn, 2)
    IN IF Debounced(s.toggle_age)
       THEN s
       ELSE IF unlock_pressed /\ s.current_gear = "P" /\ lever_pos = POS_CENTER
       THEN [s EXCEPT !.current_gear = "N"]
       ELSE IF BitSet(park_btn, 1) /\ lever_pos = POS_CENTER
       THEN [s EXCEPT !.current_gear = "P"]
       ELSE ManualCenterReturn(CenterReturn(s, lever_pos), lever_pos)

\* HandleToggleAction whose unlock branch does not return
HandleToggleAction_UnlockNoReturn(s, lever_pos, park_btn) ==
    LET unlock_pressed == BitSet(park_btn, 2)
        s1 == IF unlock_pressed /\ s.current_gear = "P" /\ lever_pos = POS_CENTER
              THEN [s EXCEPT !.current_gear = "N"]
              ELSE s
    IN IF BitSet(park_btn, 1) /\ lever_pos = POS_CENTER
       THEN [s1 EXCEPT !.current_gear = "P"]
       ELSE IF Debounced(s1.toggle_age)
       THEN s1
       ELSE ManualCenterReturn(CenterReturn(s1, lever_pos), lever_pos)

\* HandleToggleAction with the park button processed after the timeout check
HandleToggleAction_ParkAfterGate(s, lever_pos, park_btn) ==
    LET unlock_pressed == BitSet(park_btn, 2)
    IN IF unlock_pressed /\ s.current_gear = "P" /\ lever_pos = POS_CENTER
       THEN [s EXCEPT !.current_gear = "N"]
       ELSE IF Debounced(s.toggle_age)
       THEN s
       ELSE IF BitSet(park_btn, 1) /\ lever_pos = POS_CENTER
       THEN [s EXCEPT !.current_gear = "P"]
       ELSE ManualCenterReturn(CenterReturn(s, lever_pos), lever_pos)
\* HandleToggleAction whose timeout check still records the return to Center
HandleToggleAction_GateSetsFlag(s, lever_pos, park_btn) ==
    LET unlock_pressed == BitSet(park_btn, 2)
    IN IF unlock_pressed /\ s.current_gear = "P" /\ lever_pos = POS_CENTER
       THEN [s EXCEPT !.current_gear = "N"]
       ELSE IF BitSet(park_btn, 1) /\ lever_pos = POS_CENTER
       THEN [s EXCEPT !.current_gear = "P"]
       ELSE IF Debounced(s.toggle_age)
       THEN [s EXCEPT !.lever_returned_to_center = (lever_pos = POS_CENTER)]
       ELSE ManualCenterReturn(CenterReturn(s, lever_pos), lever_pos)

\* s.toggle_age is current_time - last_toggle_time on entry
HandleToggleAction(s, lever_pos, park_btn) ==
    LET unlock_pressed == BitSet(park_btn, 2)
    IN IF unlock_pressed /\ s.current_gear = "P" /\ lever_pos = POS_CENTER
       THEN [s EXCEPT !.current_gear = "N"]
       ELSE IF BitSet(park_btn, 1) /\ lever_pos = POS_CENTER
       THEN [s EXCEPT !.current_gear = "P"]
       ELSE IF Debounced(s.toggle_age)
       THEN s
       ELSE ManualCenterReturn(CenterReturn(s, lever_pos), lever_pos)

\* data = <<crc, counter, lever_pos, park_btn>>
DecodeLeverMessage_CrcChecked(s, data) ==
    IF Len(data) < 4
    THEN [s EXCEPT !.decoded = FALSE]
    ELSE IF data[1] # cache_197[data[2]][data[3]][data[4]]
    THEN [s EXCEPT !.decoded = FALSE]
    ELSE LET lever_pos == data[3]
             park_btn == data[4]
             s1 == [s EXCEPT !.lever_position = LeverPositionName(lever_pos),
                             !.park_button = ButtonName(BitSet(park_btn, 1)),
                             !.unlock_button = ButtonName(BitSet(park_btn, 2)),
                             !.previous_lever_position = s.current_lever_position,
                             !.current_lever_position = lever_pos]
         IN [HandleToggleAction(s1, lever_pos, park_btn) EXCEPT !.decoded = TRUE]
\* DecodeLeverMessage that tracks the position only of frames that pass the
\* timeout check
DecodeLeverMessage_GatedBookkeeping(s, data) ==
    IF Len(data) < 4
    THEN [s EXCEPT !.decoded = FALSE]
    ELSE LET lever_pos == data[3]
             park_btn == data[4]
             s0 == [s EXCEPT !.lever_position = LeverPositionName(lever_pos),
                             !.park_button = ButtonName(BitSet(park_btn, 1)),
                             !.unlock_button = ButtonName(BitSet(park_btn, 2))]
             s1 == IF Debounced(s.toggle_age)
                   THEN s0
                   ELSE [s0 EXCEPT !.previous_lever_position = s.current_lever_position,
                                   !.current_lever_position = lever_pos]
         IN [HandleToggleAction(s1, lever_pos, park_btn) EXCEPT !.decoded = TRUE]

DecodeLeverMessage(s, data) ==
    IF Len(data) < 4
    THEN [s EXCEPT !.decoded = FALSE]
    ELSE LET lever_pos == data[3]
             park_btn == data[4]
             s1 == [s EXCEPT !.lever_position = LeverPositionName(lever_pos),
                             !.park_button = ButtonName(BitSet(park_btn, 1)),
                             !.unlock_button = ButtonName(BitSet(park_btn, 2)),
                             !.previous_lever_position = s.current_lever_position,
                             !.current_lever_position = lever_pos]
         IN [HandleToggleAction(s1, lever_pos, park_btn) EXCEPT !.decoded = TRUE]

---------------------------------------------------------------------------
\* CANController.send_gear_led

gear_led_codes == [P |-> \h20, R |-> \h40, N |-> \h60, D |-> \h80, S |-> \h81]
LED_CODE_MANUAL == \h81
FLASH_BIT == \h08

NoFrame == [arbitration_id |-> 0, data |-> <<>>]

\* the threads that call send_gear_led: the CAN monitor thread through
\* _bmw_message_handler, and the LED thread
Callers == {"monitor", "led"}
NoLocals == [gear |-> "-", value |-> 0]
NoMessage == [arbitration_id |-> 0, data |-> <<>>]

Controller == [gws_counter |-> gws_counter, bmw_bus |-> bmw_bus, tx |-> tx]

\* self.gws_counter = (self.gws_counter + 1) if self.gws_counter < 0x0E else 0x01
NextCounter_FromZero(counter) ==
    IF counter < GWS_COUNTER_MAX THEN counter + 1 ELSE 0

NextCounter(counter) ==
    IF counter < GWS_COUNTER_MAX THEN counter + 1 ELSE GWS_COUNTER_INIT

\* the values send_gear_led can pass to bmw_3fd_crc, and CRCCalculator's
\* cache of their CRCs
LedCodes == {gear_led_codes[g] : g \in DOMAIN gear_led_codes} \cup {LED_CODE_MANUAL}
CounterValues == 0..MaxCounterValue
cache_3fd ==
    [counter \in CounterValues |->
        [led_code \in LedCodes |-> Bmw3fdCrc(<<counter, led_code, 0, 0>>)]]

\* payload_without_crc, crc and the can.Message of one LED update
LedMessage(counter, led_code) ==
    LET payload_without_crc == <<counter, led_code, 0, 0>>
        crc == IF CRCCHECK_AVAILABLE
               THEN cache_3fd[counter][led_code]
               ELSE Bmw3fdMockCrc(payload_without_crc)
    IN [arbitration_id |-> LED_MESSAGE_ID, data |-> <<crc>> \o payload_without_crc]

SendGearLed_Flash(c, gear) ==
    IF c.bmw_bus = "None"
    THEN c
    ELSE IF ~StartsWithM(gear) /\ gear \notin DOMAIN gear_led_codes
    THEN c
    ELSE LET led_code == IF StartsWithM(gear)
                         THEN LED_CODE_MANUAL ELSE gear_led_codes[gear]
             counter == NextCounter(c.gws_counter)
         IN IF c.bmw_bus = "open"
            THEN [c EXCEPT !.gws_counter = counter,
                           !.tx = [LedMessage(counter, led_code) EXCEPT !.data[3] = led_code + FLASH_BIT]]
            ELSE [c EXCEPT !.gws_counter = counter]

\* send_gear_led(gear, flash); flash is not used, and a send on a bus that
\* was shut down raises inside the try block, after the counter was advanced
SendGearLed(c, gear) ==
    IF c.bmw_bus = "None"
    THEN c
    ELSE IF ~StartsWithM(gear) /\ gear \notin DOMAIN gear_led_codes
    THEN c
    ELSE LET led_code == IF StartsWithM(gear)
                         THEN LED_CODE_MANUAL ELSE gear_led_codes[gear]
             counter == NextCounter(c.gws_counter)
         IN IF c.bmw_bus = "open"
            THEN [c EXCEPT !.gws_counter = counter,
                           !.tx = LedMessage(counter, led_code)]
            ELSE [c EXCEPT !.gws_counter = counter]

---------------------------------------------------------------------------
\* Frames on the bus

LeverFrames == {<<0, 1, p, b>> : p \in Positions, b \in ButtonBytes}
ShortFrames == {<<>>, <<0, 1, POS_UP>>}

\* lever frames as the selector sends them: [crc, counter, lever_pos, buttons]
\* with the CRC of the 0x197 family over the three bytes behind it
\* the counter byte is read and never used: Center frames carry 2, the
\* others 1
LeverCounter(lever_pos) == IF lever_pos = POS_CENTER THEN 2 ELSE 1
LeverMessage(counter, lever_pos, park_btn) ==
    [arbitration_id |-> LEVER_MESSAGE_ID,
     data |-> <<cache_197[counter][lever_pos][park_btn], counter, lever_pos, park_btn>>]

\* the button-free lever frames that reach every gear, and the short ones
BusPositions == Positions \ {POS_MANUAL_DOWN, POS_UNMAPPED}
\* a frame of another node: the payload of the Up lever frame under the ID
\* of the LED frames
OtherMessages ==
    {[arbitration_id |-> LED_MESSAGE_ID, data |-> LeverMessage(1, POS_UP, 0).data]}

BusMessages ==
    {LeverMessage(LeverCounter(p), p, 0) : p \in BusPositions}
        \cup {[arbitration_id |-> LEVER_MESSAGE_ID, data |-> d] : d \in ShortFrames}
        \cup OtherMessages

---------------------------------------------------------------------------
\* Record of the frames processed since the lever was at rest

Scripts ==
    {<<POS_UP, POS_CENTER>>,
     <<POS_DOWN, POS_CENTER>>,
     <<POS_SIDE, POS_CENTER, POS_MANUAL_UP, POS_SIDE>>}

IsScriptPrefix(frames) ==
    \E sc \in Scripts : Len(frames) <= Len(sc) /\ SubSeq(sc, 1, Len(frames)) = frames

NoRun == [gear |-> "-", side_returned |-> FALSE, frames |-> <<>>, late |-> FALSE]

\* the lever is at rest: tracker positions at Center, no button pressed, and
\* no debounce window open when the next frame arrives `arrival` after the
\* last toggle
AtRest(arrival) ==
    /\ current_lever_position = POS_CENTER
    /\ previous_lever_position = POS_CENTER
    /\ park_button = "Released"
    /\ unlock_button = "Released"
    /\ arrival >= TOGGLE_TIMEOUT

\* run after a frame: a button-free frame continues a script, or starts one
\* from rest; `late` tells that every frame of the run arrived outside the
\* debounce window
NextRun(data, arrival) ==
    IF Len(data) < 4 \/ data[4] # 0
    THEN NoRun
    ELSE IF run.frames # <<>> /\ IsScriptPrefix(Append(run.frames, data[3]))
    THEN [run EXCEPT !.frames = Append(@, data[3]),
                     !.late = @ /\ arrival >= TOGGLE_TIMEOUT]
    ELSE IF AtRest(arrival) /\ IsScriptPrefix(<<data[3]>>)
    THEN [gear |-> current_gear,
          side_returned |-> lever_returned_to_manual_center,
          frames |-> <<data[3]>>,
          late |-> TRUE]
    ELSE NoRun

---------------------------------------------------------------------------
\* The objects next to the lever controller, as their constructors leave them

\* PiRacerState(): throttle_input in percent of full stick, speed_gear 1..4
PiRacerState == [throttle_input |-> 0, speed_gear |-> 1]

\* BMWToggleGearController.__init__ on a connected bus: the timers of the
\* toggle and of the park button as ages, time.time() being far from the 0
\* both start at; initialize_system has sent the LED frame of Park
toggle_timeout == 500
debounce_time == 100

BMWToggleGearController ==
    [current_gear |-> "P",
     park_locked |-> TRUE,
     manual_gear_level |-> 1,
     current_lever_position |-> POS_CENTER,
     previous_lever_position |-> POS_CENTER,
     lever_returned_to_center |-> TRUE,
     park_button_pressed |-> FALSE,
     unlock_button_pressed |-> FALSE,
     park_button_age |-> debounce_time,
     toggle_age |-> toggle_timeout,
     running |-> TRUE,
     gws_counter |-> 2,
     led_code |-> \h20,
     rising_edge |-> FALSE,
     park_arrival_age |-> debounce_time,
     gear_before |-> "P"]

\* the messages given to the CRC calculator
CacheMessages == {<<1, POS_CENTER, 0>>, <<2, POS_UP, 0>>, <<1, gear_led_codes.N, 0, 0>>}

\* a key that is not in the dict
Missing == -1

\* CRCCalculator(): two empty dicts
CRCCalculator ==
    [cache \in {"_cache_3fd", "_cache_197"} |-> [m \in CacheMessages |-> Missing]]

\* no call made yet
NoCall == [variant |-> "-", message |-> <<>>, result |-> Missing]

---------------------------------------------------------------------------
\* Actions

Install(s) ==
    /\ current_gear' = s.current_gear
    /\ manual_gear' = s.manual_gear
    /\ lever_position' = s.lever_position
    /\ park_button' = s.park_button
    /\ unlock_button' = s.unlock_button
    /\ current_lever_position' = s.current_lever_position
    /\ previous_lever_position' = s.previous_lever_position
    /\ lever_returned_to_center' = s.lever_returned_to_center
    /\ lever_returned_to_manual_center' = s.lever_returned_to_manual_center
    /\ toggle_age' = s.toggle_age
    /\ decoded' = s.decoded
    /\ fired' = s.fired
Init_LeverAway ==
    /\ current_gear = "N"
    /\ manual_gear = 1
    /\ lever_position = "Unknown"
    /\ park_button = "Released"
    /\ unlock_button = "Released"
    /\ current_lever_position = POS_UP
    /\ previous_lever_position = POS_CENTER
    /\ lever_returned_to_center = FALSE
    /\ lever_returned_to_manual_center = TRUE
    /\ toggle_age = TOGGLE_TIMEOUT
    /\ arrival_age = TOGGLE_TIMEOUT
    /\ decoded = FALSE
    /\ fired = {}
    /\ gear_before = "N"
    /\ run = NoRun
    /\ rx = NoMessage
    /\ gws_counter = GWS_COUNTER_INIT
    /\ bmw_bus = "open"
    /\ running = TRUE
    /\ tx = NoFrame
    /\ led_pc = "check"
    /\ pc = [t \in Callers |-> "idle"]
    /\ loc = [t \in Callers |-> NoLocals]
    /\ writer = "-"
    /\ pending = <<>>
    /\ seen = <<"N", 1>>
    /\ CRCCHECK_AVAILABLE = TRUE
    /\ bmw_pc = "check"
    /\ program = "optimized"
    /\ piracer_state = PiRacerState
    /\ throttle = 0
    /\ toggle_controller = BMWToggleGearController
    /\ crc_calculator = CRCCalculator
    /\ crc_call = NoCall

\* BMWState() and BMWLeverController(logger); time.time() counts from 1970
\* while last_toggle_time starts at 0, so no debounce window is open; the
\* application runs with crccheck installed
Init ==
    /\ current_gear = "N"
    /\ manual_gear = 1
    /\ lever_position = "Unknown"
    /\ park_button = "Released"
    /\ unlock_button = "Released"
    /\ current_lever_position = POS_CENTER
    /\ previous_lever_position = POS_CENTER
    /\ lever_returned_to_center = TRUE
    /\ lever_returned_to_manual_center = TRUE
    /\ toggle_age = TOGGLE_TIMEOUT
    /\ arrival_age = TOGGLE_TIMEOUT
    /\ decoded = FALSE
    /\ fired = {}
    /\ gear_before = "N"
    /\ run = NoRun
    /\ rx = NoMessage
    /\ gws_counter = GWS_COUNTER_INIT
    /\ bmw_bus = "open"
    /\ running = TRUE
    /\ tx = NoFrame
    /\ led_pc = "check"
    /\ pc = [t \in Callers |-> "idle"]
    /\ loc = [t \in Callers |-> NoLocals]
    /\ writer = "-"
    /\ pending = <<>>
    /\ seen = <<"N", 1>>
    /\ CRCCHECK_AVAILABLE = TRUE
    /\ bmw_pc = "check"
    /\ program = "optimized"
    /\ piracer_state = PiRacerState
    /\ throttle = 0
    /\ toggle_controller = BMWToggleGearController
    /\ crc_calculator = CRCCalculator
    /\ crc_call = NoCall

InstallController(c) ==
    /\ gws_counter' = c.gws_counter
    /\ bmw_bus' = c.bmw_bus
    /\ tx' = c.tx

\* the state decode_lever_message leaves for a frame arriving `arrival` after
\* the last toggle
Decoded(data, arrival) ==
    DecodeLeverMessage([State EXCEPT !.toggle_age = arrival, !.fired = {}], data)

\* decode_lever_message(msg, bmw_state) for a frame arriving dt after the last
Decode(data, dt) ==
    LET arrival == Elapsed(toggle_age, dt)
    IN /\ Install(Decoded(data, arrival))
       /\ arrival_age' = arrival
       /\ gear_before' = current_gear
       /\ run' = NextRun(data, arrival)

\* the lever controller alone, fed with payloads
Frame(data, dt) ==
    /\ Decode(data, dt)
    /\ UNCHANGED <<busVars, raceVars, sharedVars, buildVars, bmw_pc, driveVars, toggleVars, cacheVars>>

\* a lever frame of 4 bytes
LeverFrame == \E data \in LeverFrames, dt \in TimeSteps : Frame(data, dt)

\* a payload shorter than 4 bytes
ShortFrame == \E data \in ShortFrames, dt \in TimeSteps : Frame(data, dt)

Next == LeverFrame \/ ShortFrame

Spec == Init /\ [][Next]_vars

---------------------------------------------------------------------------
\* The lever controller fed with frames whose CRC byte may be wrong

\* a CRC byte that does not match the three bytes behind it
BadCrc(crc) == (crc + 1) % 256

CrcFrames ==
    LET good(p, b) == cache_197[1][p][b]
    IN {<<good(p, b), 1, p, b>> : p \in Positions, b \in ButtonBytes}
         \cup {<<BadCrc(good(p, b)), 1, p, b>> : p \in Positions, b \in ButtonBytes}

\* decode_lever_message(msg, bmw_state) on a 0x197 frame
CrcFrame ==
    \E data \in CrcFrames, dt \in TimeSteps :
        /\ Decode(data, dt)
        /\ rx' = [arbitration_id |-> LEVER_MESSAGE_ID, data |-> data]
        /\ UNCHANGED <<gws_counter, bmw_bus, running, tx, led_pc, raceVars, sharedVars, buildVars, bmw_pc, driveVars, toggleVars, cacheVars>>

NextCrc == CrcFrame

SpecCrc == Init /\ [][NextCrc]_vars

---------------------------------------------------------------------------
\* The LED encoder alone, called for every gear, with and without crccheck

\* a freshly constructed CANController with an open bus, the gear any value
\* BMWState.current_gear takes, and either outcome of "import crccheck"
InitCodec ==
    /\ current_gear \in {"P", "R", "N", "D"} \cup {MGear(n) : n \in 1..MANUAL_GEARS}
    /\ manual_gear = 1
    /\ lever_position = "Unknown"
    /\ park_button = "Released"
    /\ unlock_button = "Released"
    /\ current_lever_position = POS_CENTER
    /\ previous_lever_position = POS_CENTER
    /\ lever_returned_to_center = TRUE
    /\ lever_returned_to_manual_center = TRUE
    /\ toggle_age = TOGGLE_TIMEOUT
    /\ arrival_age = TOGGLE_TIMEOUT
    /\ decoded = FALSE
    /\ fired = {}
    /\ gear_before = current_gear
    /\ run = NoRun
    /\ rx = NoMessage
    /\ gws_counter = GWS_COUNTER_INIT
    /\ bmw_bus = "open"
    /\ running = TRUE
    /\ tx = NoFrame
    /\ led_pc = "check"
    /\ pc = [t \in Callers |-> "idle"]
    /\ loc = [t \in Callers |-> NoLocals]
    /\ writer = "-"
    /\ pending = <<>>
    /\ seen = <<current_gear, 1>>
    /\ CRCCHECK_AVAILABLE \in BOOLEAN
    /\ bmw_pc = "check"
    /\ program = "optimized"
    /\ piracer_state = PiRacerState
    /\ throttle = 0
    /\ toggle_controller = BMWToggleGearController
    /\ crc_calculator = CRCCalculator
    /\ crc_call = NoCall

\* can_controller.send_gear_led(bmw_state.current_gear)
SendGearLedCall ==
    /\ InstallController(SendGearLed(Controller, current_gear))
    /\ UNCHANGED <<leverVars, rx, running, led_pc, raceVars, sharedVars, buildVars, bmw_pc, driveVars, toggleVars, cacheVars>>

NextCodec == SendGearLedCall

SpecCodec == InitCodec /\ [][NextCodec]_vars

---------------------------------------------------------------------------
\* The application on the bus: message handler, LED thread and closeEvent

BmwMessageHandler_StaleGear(msg, dt) ==
    /\ running
    /\ bmw_bus = "open"
    /\ rx' = msg
    /\ running' = running
    /\ led_pc' = led_pc
    /\ UNCHANGED <<raceVars, sharedVars, buildVars, driveVars, toggleVars, cacheVars>>
    /\ IF msg.arbitration_id = LEVER_MESSAGE_ID
       THEN /\ Decode(msg.data, dt)
            /\ IF decoded' /\ current_gear' # "Unknown"
               THEN InstallController(SendGearLed(Controller, current_gear))
               ELSE InstallController(Controller)
       ELSE /\ toggle_age' = Elapsed(toggle_age, dt)
            /\ UNCHANGED <<current_gear, manual_gear, lever_position, park_button,
                           unlock_button, current_lever_position,
                           previous_lever_position, lever_returned_to_center,
                           lever_returned_to_manual_center, arrival_age, decoded,
                           fired, gear_before, run>>
            /\ InstallController(Controller)

BmwMessageHandler_SendAlways(msg, dt) ==
    /\ running
    /\ bmw_bus = "open"
    /\ rx' = msg
    /\ running' = running
    /\ led_pc' = led_pc
    /\ UNCHANGED <<raceVars, sharedVars, buildVars, driveVars, toggleVars, cacheVars>>
    /\ IF msg.arbitration_id = LEVER_MESSAGE_ID
       THEN /\ Decode(msg.data, dt)
            /\ InstallController(SendGearLed(Controller, current_gear'))
       ELSE /\ toggle_age' = Elapsed(toggle_age, dt)
            /\ UNCHANGED <<current_gear, manual_gear, lever_position, park_button,
                           unlock_button, current_lever_position,
                           previous_lever_position, lever_returned_to_center,
                           lever_returned_to_manual_center, arrival_age, decoded,
                           fired, gear_before, run>>
            /\ InstallController(Controller)
\* BmwMessageHandler without the test of the arbitration ID
BmwMessageHandler_AnyId(msg, dt) ==
    /\ running
    /\ bmw_bus = "open"
    /\ rx' = msg
    /\ running' = running
    /\ led_pc' = led_pc
    /\ UNCHANGED <<raceVars, sharedVars, buildVars, driveVars, toggleVars, cacheVars>>
    /\ Decode(msg.data, dt)
    /\ IF decoded' /\ current_gear' # "Unknown"
       THEN InstallController(SendGearLed(Controller, current_gear'))
       ELSE InstallController(Controller)

\* _bmw_message_handler(msg) for a message the monitor thread received dt
\* after the last; the handler runs in the GUI thread, as closeEvent does
BmwMessageHandler(msg, dt) ==
    /\ running
    /\ bmw_bus = "open"
    /\ rx' = msg
    /\ running' = running
    /\ led_pc' = led_pc
    /\ UNCHANGED <<raceVars, sharedVars, buildVars, driveVars, toggleVars, cacheVars>>
    /\ IF msg.arbitration_id = LEVER_MESSAGE_ID
       THEN /\ Decode(msg.data, dt)
            /\ IF decoded' /\ current_gear' # "Unknown"
               THEN InstallController(SendGearLed(Controller, current_gear'))
               ELSE InstallController(Controller)
       ELSE /\ toggle_age' = Elapsed(toggle_age, dt)
            /\ UNCHANGED <<current_gear, manual_gear, lever_position, park_button,
                           unlock_button, current_lever_position,
                           previous_lever_position, lever_returned_to_center,
                           lever_returned_to_manual_center, arrival_age, decoded,
                           fired, gear_before, run>>
            /\ InstallController(Controller)

\* on the bus the messages handled are TOGGLE_TIMEOUT apart
HandleMessage ==
    /\ \E msg \in BusMessages : BmwMessageHandler(msg, TOGGLE_TIMEOUT)
    /\ bmw_pc' = bmw_pc
\* LedCheck whose loop condition is the bus alone
LedCheck_BusOnly ==
    /\ led_pc = "check"
    /\ led_pc' = IF bmw_bus # "None"
                 THEN (IF current_gear # "Unknown" THEN "send" ELSE "check")
                 ELSE "exit"
    /\ UNCHANGED <<leverVars, rx, gws_counter, bmw_bus, running, tx, raceVars, sharedVars, buildVars, bmw_pc, driveVars, toggleVars, cacheVars>>

\* LEDControlThread.run: the loop condition and the gear test
LedCheck ==
    /\ led_pc = "check"
    /\ led_pc' = IF running /\ bmw_bus # "None"
                 THEN (IF current_gear # "Unknown" THEN "send" ELSE "check")
                 ELSE "exit"
    /\ UNCHANGED <<leverVars, rx, gws_counter, bmw_bus, running, tx, raceVars, sharedVars, buildVars, bmw_pc, driveVars, toggleVars, cacheVars>>
\* LedSend with the periodic update left out
LedSend_NoUpdate ==
    /\ led_pc = "send"
    /\ led_pc' = "check"
    /\ UNCHANGED <<leverVars, rx, gws_counter, bmw_bus, tx, running, raceVars, sharedVars, buildVars, bmw_pc, driveVars, toggleVars, cacheVars>>

\* LEDControlThread.run: send_gear_led(current_gear) and the sleep
LedSend ==
    /\ led_pc = "send"
    /\ led_pc' = "check"
    /\ InstallController(SendGearLed(Controller, current_gear))
    /\ UNCHANGED <<leverVars, rx, running, raceVars, sharedVars, buildVars, bmw_pc, driveVars, toggleVars, cacheVars>>

\* closeEvent: running = False, then CANController.shutdown() closes the bus
\* without waiting for the threads
CloseEvent ==
    /\ running
    /\ running' = FALSE
    /\ bmw_bus' = IF bmw_bus = "None" THEN "None" ELSE "shutdown"
    /\ UNCHANGED <<leverVars, rx, gws_counter, tx, led_pc, raceVars, sharedVars, buildVars, bmw_pc, driveVars, toggleVars, cacheVars>>

NextLed == HandleMessage \/ LedCheck \/ LedSend \/ CloseEvent

SpecLed == Init /\ [][NextLed]_vars

---------------------------------------------------------------------------
\* The two threads of the application with their loops, under fair
\* scheduling

\* the lever frames of an Up or a Down excursion
LiveMessages == {LeverMessage(LeverCounter(p), p, 0) : p \in {POS_UP, POS_CENTER, POS_DOWN}}

\* BMWMonitorThread.run: the loop condition
MonitorCheck ==
    /\ bmw_pc = "check"
    /\ bmw_pc' = IF running /\ bmw_bus # "None" THEN "recv" ELSE "exit"
    /\ UNCHANGED <<leverVars, busVars, raceVars, sharedVars, buildVars, driveVars, toggleVars, cacheVars>>

\* recv returned a message: message_ready runs _bmw_message_handler
MonitorRecvMessage ==
    /\ bmw_pc = "recv"
    /\ bmw_pc' = "check"
    /\ \E msg \in LiveMessages : BmwMessageHandler(msg, TOGGLE_TIMEOUT)

\* recv returned None after BMW_CAN_TIMEOUT, or raised on a bus that was
\* shut down and the except branch ran
MonitorRecvTimeout ==
    /\ bmw_pc = "recv"
    /\ bmw_pc' = "check"
    /\ UNCHANGED <<leverVars, busVars, raceVars, sharedVars, buildVars, driveVars, toggleVars, cacheVars>>

MonitorRecv == MonitorRecvMessage \/ MonitorRecvTimeout

NextLive ==
    \/ MonitorCheck
    \/ MonitorRecvMessage
    \/ MonitorRecvTimeout
    \/ LedCheck
    \/ LedSend
    \/ CloseEvent

\* both QThreads keep running: recv returns within its timeout, send_gear_led
\* and the sleep of the LED loop return; closeEvent and the arrival of
\* frames are up to the environment
Fairness ==
    /\ WF_vars(MonitorCheck)
    /\ WF_vars(MonitorRecv)
    /\ WF_vars(LedCheck)
    /\ WF_vars(LedSend)

SpecLive == Init /\ [][NextLive]_vars /\ Fairness

---------------------------------------------------------------------------
\* send_gear_led taken statement by statement, in the controller whose
\* handler runs in the CAN monitor thread

RaceMessages == {LeverMessage(LeverCounter(p), p, 0) : p \in {POS_UP, POS_CENTER}}

\* if not self.bmw_bus: return, and the LED code of the gear
EnterSendGearLed(t, gear) ==
    IF bmw_bus = "None" \/ (~StartsWithM(gear) /\ gear \notin DOMAIN gear_led_codes)
    THEN /\ pc' = pc
         /\ loc' = loc
    ELSE /\ pc' = [pc EXCEPT ![t] = "test"]
         /\ loc' = [loc EXCEPT ![t] = [gear |-> gear, value |-> 0]]

\* bmw_monitor_loop: recv and _bmw_message_handler(msg) up to the call of
\* send_gear_led
MonitorReceive ==
    \E msg \in RaceMessages :
        /\ pc["monitor"] = "idle"
        /\ running
        /\ bmw_bus = "open"
        /\ rx' = msg
        /\ IF msg.arbitration_id = LEVER_MESSAGE_ID
           THEN /\ Decode(msg.data, TOGGLE_TIMEOUT)
                /\ IF decoded' /\ current_gear' # "Unknown"
                   THEN EnterSendGearLed("monitor", current_gear')
                   ELSE UNCHANGED raceVars
           ELSE UNCHANGED <<leverVars, raceVars>>
        /\ UNCHANGED <<gws_counter, bmw_bus, running, tx, led_pc, sharedVars, buildVars, bmw_pc, driveVars, toggleVars, cacheVars>>

\* led_control_loop: the loop condition, the gear test and the call
LedLoop ==
    /\ pc["led"] = "idle"
    /\ running
    /\ bmw_bus # "None"
    /\ IF current_gear # "Unknown"
       THEN EnterSendGearLed("led", current_gear)
       ELSE UNCHANGED raceVars
    /\ UNCHANGED <<leverVars, busVars, sharedVars, buildVars, bmw_pc, driveVars, toggleVars, cacheVars>>

\* the condition of the conditional expression: self.gws_counter < 0x0E
CounterTest(t) ==
    /\ pc[t] = "test"
    /\ IF gws_counter < GWS_COUNTER_MAX
       THEN /\ pc' = [pc EXCEPT ![t] = "add"]
            /\ loc' = loc
       ELSE /\ pc' = [pc EXCEPT ![t] = "store"]
            /\ loc' = [loc EXCEPT ![t].value = GWS_COUNTER_INIT]
    /\ UNCHANGED <<leverVars, busVars, sharedVars, buildVars, bmw_pc, driveVars, toggleVars, cacheVars>>

\* its first branch: self.gws_counter + 1, a second read of the counter
CounterAdd(t) ==
    /\ pc[t] = "add"
    /\ gws_counter + 1 <= MaxCounterValue
    /\ pc' = [pc EXCEPT ![t] = "store"]
    /\ loc' = [loc EXCEPT ![t].value = gws_counter + 1]
    /\ UNCHANGED <<leverVars, busVars, sharedVars, buildVars, bmw_pc, driveVars, toggleVars, cacheVars>>

\* the assignment self.gws_counter = ...
CounterStore(t) ==
    /\ pc[t] = "store"
    /\ gws_counter' = loc[t].value
    /\ pc' = [pc EXCEPT ![t] = "payload"]
    /\ loc' = loc
    /\ UNCHANGED <<leverVars, rx, bmw_bus, running, tx, led_pc, sharedVars, buildVars, bmw_pc, driveVars, toggleVars, cacheVars>>

\* payload_without_crc reads the counter again; crc, message and send
PayloadSend(t) ==
    /\ pc[t] = "payload"
    /\ tx' = IF bmw_bus = "open"
             THEN LedMessage(gws_counter,
                             IF StartsWithM(loc[t].gear)
                             THEN LED_CODE_MANUAL ELSE gear_led_codes[loc[t].gear])
             ELSE tx
    /\ pc' = [pc EXCEPT ![t] = "idle"]
    /\ loc' = [loc EXCEPT ![t] = NoLocals]
    /\ UNCHANGED <<leverVars, rx, gws_counter, bmw_bus, running, led_pc, sharedVars, buildVars, bmw_pc, driveVars, toggleVars, cacheVars>>

SendGearLedStep ==
    \E t \in Callers : CounterTest(t) \/ CounterAdd(t) \/ CounterStore(t) \/ PayloadSend(t)

NextRace == MonitorReceive \/ LedLoop \/ SendGearLedStep

SpecRace == Init /\ [][NextRace]_vars

---------------------------------------------------------------------------
\* The threads that share BMWState in the controller whose handler runs in
\* the CAN monitor thread: the receiver, the gamepad loop and the GUI

SharedFrames ==
    {<<0, 1, p, 0>> : p \in {POS_CENTER, POS_SIDE, POS_MANUAL_UP, POS_MANUAL_DOWN}}

\* the frame writes manual_gear and then an 'Mn' string into current_gear
WritesManualPair(s) == s.current_gear # current_gear /\ StartsWithM(s.current_gear)

\* decode_lever_message in the monitor thread, up to the write of manual_gear
\* when the frame writes the pair, and to its end otherwise
ReceiverFrame ==
    \E data \in SharedFrames :
        LET arrival == Elapsed(toggle_age, TOGGLE_TIMEOUT)
            s == Decoded(data, arrival)
        IN /\ pending = <<>>
           /\ running
           /\ IF WritesManualPair(s)
              THEN /\ Install([s EXCEPT !.current_gear = current_gear,
                                        !.toggle_age = arrival])
                   /\ pending' = <<s>>
              ELSE /\ Install(s)
                   /\ pending' = <<>>
           /\ arrival_age' = arrival
           /\ gear_before' = current_gear
           /\ run' = NextRun(data, arrival)
           /\ writer' = IF s.current_gear # current_gear \/ s.manual_gear # manual_gear
                        THEN "receiver" ELSE writer
           /\ seen' = seen
           /\ UNCHANGED <<busVars, raceVars, buildVars, bmw_pc, driveVars, toggleVars, cacheVars>>

\* the rest of that frame: bmw_state.current_gear = f'M{manual_gear}' and
\* last_toggle_time = current_time
ReceiverFinish ==
    /\ pending # <<>>
    /\ current_gear' = pending[1].current_gear
    /\ toggle_age' = pending[1].toggle_age
    /\ pending' = <<>>
    /\ writer' = "receiver"
    /\ seen' = seen
    /\ UNCHANGED <<manual_gear, lever_position, park_button, unlock_button,
                   current_lever_position, previous_lever_position,
                   lever_returned_to_center, lever_returned_to_manual_center,
                   arrival_age, decoded, fired, gear_before, run,
                   busVars, raceVars, buildVars, bmw_pc, driveVars, toggleVars, cacheVars>>

\* gamepad_loop: button B, A, X or Y sets Drive, Neutral, Reverse or Park
gamepad_gears == [B |-> "D", A |-> "N", X |-> "R", Y |-> "P"]

GamepadButton ==
    \E button \in DOMAIN gamepad_gears :
        /\ running
        /\ IF current_gear # gamepad_gears[button]
           THEN /\ current_gear' = gamepad_gears[button]
                /\ writer' = "gamepad"
           ELSE /\ current_gear' = current_gear
                /\ writer' = writer
        /\ UNCHANGED <<manual_gear, lever_position, park_button, unlock_button,
                       current_lever_position, previous_lever_position,
                       lever_returned_to_center, lever_returned_to_manual_center,
                       toggle_age, arrival_age, decoded, fired, gear_before, run,
                       pending, seen, busVars, raceVars, buildVars, bmw_pc, driveVars, toggleVars, cacheVars>>

\* update_gear_display in the GUI thread: the gear of the display and
\* bmw_state.manual_gear as it is at that moment
UpdateGearDisplay ==
    /\ seen' = <<current_gear, manual_gear>>
    /\ UNCHANGED <<leverVars, busVars, raceVars, writer, pending, buildVars, bmw_pc, driveVars, toggleVars, cacheVars>>

NextShared == ReceiverFrame \/ ReceiverFinish \/ GamepadButton \/ UpdateGearDisplay

SpecShared == Init /\ [][NextShared]_vars

Gears == {"P", "R", "N", "D"} \cup {MGear(n) : n \in 1..MANUAL_GEARS}

TypeOK ==
    /\ current_gear \in Gears
    /\ manual_gear \in 1..MANUAL_GEARS
    /\ current_lever_position \in Positions
    /\ previous_lever_position \in Positions
    /\ lever_returned_to_center \in BOOLEAN
    /\ lever_returned_to_manual_center \in BOOLEAN
    /\ toggle_age \in 0..TOGGLE_TIMEOUT
    /\ arrival_age \in 0..TOGGLE_TIMEOUT
    /\ decoded \in BOOLEAN
    /\ fired \subseteq {"primary", "manual"}
    /\ gear_before \in Gears

---------------------------------------------------------------------------
\* C1: from Neutral with the lever at rest, the button-free frames Up then
\* Center leave Reverse; Down then Center leave Neutral from Reverse and
\* Drive from Neutral.
C1_UpDownFromRest ==
    /\ (run.frames = <<POS_UP, POS_CENTER>> /\ run.gear = "N") => current_gear = "R"
    /\ (run.frames = <<POS_DOWN, POS_CENTER>> /\ run.gear = "R") => current_gear = "N"
    /\ (run.frames = <<POS_DOWN, POS_CENTER>> /\ run.gear = "N") => current_gear = "D"

C1_Witness ==
    /\ run.frames = <<POS_UP, POS_CENTER>>
    /\ run.gear = "N"
    /\ current_gear = "R"

C1_WitnessDownFromReverse ==
    /\ run.frames = <<POS_DOWN, POS_CENTER>>
    /\ run.gear = "R"
    /\ current_gear = "N"

C1_WitnessDownFromNeutral ==
    /\ run.frames = <<POS_DOWN, POS_CENTER>>
    /\ run.gear = "N"
    /\ current_gear = "D"

\* C2 as stated: from Drive with the lever at rest, Side then Center leave M1,
\* and a following ManualUp then side-center leave M2.
C2_SideThenManualUp_AsStated ==
    /\ (run.frames = <<POS_SIDE, POS_CENTER>> /\ run.gear = "D")
          => current_gear = MGear(1)
    /\ (run.frames = <<POS_SIDE, POS_CENTER, POS_MANUAL_UP, POS_SIDE>> /\ run.gear = "D")
          => current_gear = MGear(2)

\* C2 amended: from Drive with the lever at rest and the side-center returned
\* flag set, Side then Center leave M1; a following ManualUp then side-center,
\* each arriving outside the debounce window, leave M2.
C2_SideThenManualUp ==
    /\ (run.frames = <<POS_SIDE, POS_CENTER>> /\ run.gear = "D" /\ run.side_returned)
          => current_gear = MGear(1)
    /\ (/\ run.frames = <<POS_SIDE, POS_CENTER, POS_MANUAL_UP, POS_SIDE>>
        /\ run.gear = "D" /\ run.side_returned /\ run.late)
          => current_gear = MGear(2)

C2_Witness ==
    /\ run.frames = <<POS_SIDE, POS_CENTER, POS_MANUAL_UP, POS_SIDE>>
    /\ run.gear = "D"
    /\ run.side_returned
    /\ run.late
    /\ current_gear = MGear(2)

C2_WitnessM1 ==
    /\ run.frames = <<POS_SIDE, POS_CENTER>>
    /\ run.gear = "D"
    /\ run.side_returned
    /\ current_gear = MGear(1)

---------------------------------------------------------------------------
\* The last frame was a lever frame of 4 bytes carrying no button bit
ButtonFree == decoded /\ park_button = "Released" /\ unlock_button = "Released"

\* The last frame arrived inside the debounce window of the last transition
InWindow == arrival_age < TOGGLE_TIMEOUT

ManualGears == {MGear(n) : n \in 1..MANUAL_GEARS}

\* C3: a Manual gear always has a level in 1..8; ManualUp returning to
\* side-center in M8 leaves M8 and ManualDown returning to side-center in M1
\* leaves M1.
C3_ManualLevelClamped ==
    /\ StartsWithM(current_gear) => current_gear \in ManualGears
    /\ manual_gear \in 1..MANUAL_GEARS
    /\ ("manual" \in fired /\ previous_lever_position = POS_MANUAL_UP
           /\ gear_before = MGear(MANUAL_GEARS))
          => current_gear = MGear(MANUAL_GEARS)
    /\ ("manual" \in fired /\ previous_lever_position = POS_MANUAL_DOWN
           /\ gear_before = MGear(1))
          => current_gear = MGear(1)

C3_Witness ==
    /\ "manual" \in fired
    /\ previous_lever_position = POS_MANUAL_UP
    /\ current_lever_position = POS_SIDE
    /\ gear_before = MGear(MANUAL_GEARS)
    /\ current_gear = MGear(MANUAL_GEARS)

C3_WitnessDown ==
    /\ "manual" \in fired
    /\ previous_lever_position = POS_MANUAL_DOWN
    /\ gear_before = MGear(1)
    /\ current_gear = MGear(1)

\* C4: a frame arriving less than TOGGLE_TIMEOUT after a transition set
\* last_toggle_time evaluates no primary-center or side-center transition and
\* makes no toggle gear change, however eligible it is.
C4_DebounceOneTransition ==
    (decoded /\ InWindow) =>
        /\ fired = {}
        /\ toggle_age = arrival_age
        /\ ButtonFree => current_gear = gear_before

\* an eligible frame (Center with the primary flag clear) inside the window
C4_Witness ==
    /\ ButtonFree
    /\ InWindow
    /\ current_lever_position = POS_CENTER
    /\ previous_lever_position # POS_CENTER
    /\ ~lever_returned_to_center
    /\ fired = {}

\* C5 as stated: a lever frame with the park bit set at Center leaves Park,
\* whatever the unlock bit.
C5_ParkOverride_AsStated ==
    (decoded /\ park_button = "Pressed" /\ current_lever_position = POS_CENTER)
        => current_gear = "P"

\* C5 amended: a lever frame with the park bit set at Center leaves Park in
\* every state, inside or outside the debounce window, except when its unlock
\* bit is set too and the gear is Park: that frame leaves Neutral.
C5_ParkOverride ==
    (decoded /\ park_button = "Pressed" /\ current_lever_position = POS_CENTER)
        => current_gear = IF unlock_button = "Pressed" /\ gear_before = "P"
                          THEN "N" ELSE "P"

\* a park frame inside the debounce window with a pending primary toggle
C5_Witness ==
    /\ decoded
    /\ park_button = "Pressed"
    /\ current_lever_position = POS_CENTER
    /\ InWindow
    /\ ~lever_returned_to_center
    /\ gear_before = "D"
    /\ current_gear = "P"

\* C6: an unlock frame at Center received in Park sets Neutral and evaluates
\* nothing else: the flags and last_toggle_time keep their values.
C6_UnlockOverride ==
    [][(decoded' /\ unlock_button' = "Pressed"
          /\ current_lever_position' = POS_CENTER /\ current_gear = "P")
        => /\ current_gear' = "N"
           /\ lever_returned_to_center' = lever_returned_to_center
           /\ lever_returned_to_manual_center' = lever_returned_to_manual_center
           /\ toggle_age' = arrival_age'
           /\ fired' = {}]_vars

\* unlock and park bits together, outside the window, a primary toggle pending
C6_Witness ==
    /\ decoded
    /\ unlock_button = "Pressed"
    /\ park_button = "Pressed"
    /\ current_lever_position = POS_CENTER
    /\ gear_before = "P"
    /\ current_gear = "N"
    /\ ~InWindow
    /\ ~lever_returned_to_center

\* C7: a button override at Center applies inside the debounce window as
\* outside it, and before any toggle rule: the frame sets the override's gear
\* and fires no transition.
C7_ButtonsBypassDebounce ==
    (/\ decoded
     /\ current_lever_position = POS_CENTER
     /\ \/ park_button = "Pressed"
        \/ unlock_button = "Pressed" /\ gear_before = "P")
        => /\ fired = {}
           /\ toggle_age = arrival_age
           /\ current_gear \in {"P", "N"}
           /\ current_gear = "P" <=> ~(unlock_button = "Pressed" /\ gear_before = "P")

\* an unlock frame received in Park inside the debounce window
C7_Witness ==
    /\ decoded
    /\ current_lever_position = POS_CENTER
    /\ unlock_button = "Pressed"
    /\ park_button = "Released"
    /\ gear_before = "P"
    /\ current_gear = "N"
    /\ InWindow

C7_WitnessPark ==
    /\ decoded
    /\ current_lever_position = POS_CENTER
    /\ park_button = "Pressed"
    /\ gear_before = "R"
    /\ current_gear = "P"
    /\ InWindow

\* C8: a transition fires only on a frame at its rest point with its returned
\* flag clear, and sets the flag; the flag is cleared only by a frame away from
\* that rest point, so further frames at the rest point fire nothing.
C8_OncePerExcursion ==
    [][/\ "primary" \in fired' =>
            /\ current_lever_position' = POS_CENTER
            /\ ~lever_returned_to_center
            /\ lever_returned_to_center'
       /\ "manual" \in fired' =>
            /\ current_lever_position' = POS_SIDE
            /\ ~lever_returned_to_manual_center
            /\ lever_returned_to_manual_center'
       /\ (lever_returned_to_center /\ ~lever_returned_to_center')
            => (decoded' /\ current_lever_position' # POS_CENTER)
       /\ (lever_returned_to_manual_center /\ ~lever_returned_to_manual_center')
            => (decoded' /\ current_lever_position' # POS_SIDE)
       /\ (lever_returned_to_center /\ current_lever_position' = POS_CENTER)
            => "primary" \notin fired'
       /\ (lever_returned_to_manual_center /\ current_lever_position' = POS_SIDE)
            => "manual" \notin fired']_vars

\* a second Center frame after a firing, outside the window, fires nothing
C8_Witness ==
    /\ ButtonFree
    /\ current_lever_position = POS_CENTER
    /\ previous_lever_position = POS_CENTER
    /\ lever_returned_to_center
    /\ ~InWindow
    /\ fired = {}
    /\ current_gear = "R"

\* The primary transition table of the specification
PrimaryTable(left_from, gear) ==
    CASE left_from = POS_UP ->
            (CASE gear = "N" -> "R" [] gear = "D" -> "N" [] OTHER -> "N")
      [] left_from = POS_UP_PLUS -> "P"
      [] left_from = POS_DOWN ->
            (CASE gear = "N" -> "D" [] gear = "R" -> "N" [] OTHER -> "D")
      [] left_from = POS_SIDE ->
            (CASE gear = "D" -> MGear(1) [] gear \in ManualGears -> "D" [] OTHER -> "D")

\* C9: the gear after a button-free, non-debounced Center frame that fires the
\* primary transition is the primary table's entry for the preceding position
\* and the gear before.
C9_PrimaryTable ==
    (/\ ButtonFree
     /\ ~InWindow
     /\ current_lever_position = POS_CENTER
     /\ "primary" \in fired
     /\ previous_lever_position \in {POS_UP, POS_UP_PLUS, POS_DOWN, POS_SIDE})
        => current_gear = PrimaryTable(previous_lever_position, gear_before)

C9_Witness ==
    /\ ButtonFree
    /\ ~InWindow
    /\ current_lever_position = POS_CENTER
    /\ "primary" \in fired
    /\ previous_lever_position = POS_DOWN
    /\ gear_before = "R"
    /\ current_gear = "N"

\* C10: the gear after a button-free, non-debounced side-center frame that
\* fires the manual transition is the manual table's entry: ManualUp raises a
\* Manual level below 8, ManualDown lowers one above 1, Center applies the
\* side-toggle rule, and ManualUp or ManualDown outside Manual change nothing.
C10_ManualTable ==
    (/\ ButtonFree
     /\ ~InWindow
     /\ current_lever_position = POS_SIDE
     /\ "manual" \in fired)
        => /\ previous_lever_position = POS_MANUAL_UP =>
                /\ \A n \in 1..(MANUAL_GEARS - 1) :
                       gear_before = MGear(n) => current_gear = MGear(n + 1)
                /\ gear_before \notin ManualGears => current_gear = gear_before
           /\ previous_lever_position = POS_MANUAL_DOWN =>
                /\ \A n \in 2..MANUAL_GEARS :
                       gear_before = MGear(n) => current_gear = MGear(n - 1)
                /\ gear_before \notin ManualGears => current_gear = gear_before
           /\ previous_lever_position = POS_CENTER =>
                /\ gear_before = "D" => current_gear = MGear(1)
                /\ gear_before \in ManualGears => current_gear = "D"

C10_Witness ==
    /\ ButtonFree
    /\ ~InWindow
    /\ current_lever_position = POS_SIDE
    /\ "manual" \in fired
    /\ previous_lever_position = POS_MANUAL_DOWN
    /\ gear_before = MGear(MANUAL_GEARS)
    /\ current_gear = MGear(MANUAL_GEARS - 1)

---------------------------------------------------------------------------
\* the seven codes of lever_position_map
MappedPositions == Positions \ {POS_UNMAPPED}

\* C13: a lever frame whose position byte is not a mapped code leaves the gear
\* as it was, whatever its button bits and the prior state, and reports the
\* position as 'Unknown (0x..)'; the button-free frame that brings the lever
\* back from such a position to Center or Side leaves the gear as it was too.
C13_UnmappedPosition ==
    /\ (decoded /\ current_lever_position \notin MappedPositions)
        => /\ current_gear = gear_before
           /\ lever_position = "Unknown (0x" \o Hex02(current_lever_position) \o ")"
    /\ (ButtonFree /\ previous_lever_position \notin MappedPositions
            /\ current_lever_position \in {POS_CENTER, POS_SIDE})
        => current_gear = gear_before

\* the lever is back at Center from an unmapped position, outside the
\* debounce window, and the primary processor ran on that return
C13_Witness ==
    /\ ButtonFree
    /\ previous_lever_position = POS_UNMAPPED
    /\ current_lever_position = POS_CENTER
    /\ "primary" \in fired
    /\ current_gear = "N"
    /\ gear_before = "N"

\* an unmapped frame with both button bits set, received in Park
C13_WitnessButtons ==
    /\ decoded
    /\ current_lever_position = POS_UNMAPPED
    /\ lever_position = "Unknown (0x4E)"
    /\ park_button = "Pressed"
    /\ unlock_button = "Pressed"
    /\ current_gear = "P"

---------------------------------------------------------------------------
\* a step of the message handler: neither the LED thread nor closeEvent moved
HandlerStep == led_pc' = led_pc /\ running' = running

\* C11: decode_lever_message on a payload shorter than 4 bytes reports failure
\* and changes nothing: gear, manual level, reported position and buttons,
\* tracked positions, both returned flags and last_toggle_time keep their
\* values, and the handler sends no LED frame for that message.
C11_ShortPayload ==
    [][(HandlerStep /\ Len(rx'.data) < 4)
        => /\ ~decoded'
           /\ UNCHANGED <<current_gear, manual_gear, lever_position, park_button,
                          unlock_button, current_lever_position,
                          previous_lever_position, lever_returned_to_center,
                          lever_returned_to_manual_center>>
           /\ toggle_age' = arrival_age'
           /\ fired' = {}
           /\ tx' = tx
           /\ gws_counter' = gws_counter]_vars

\* a 3-byte payload handled in M2 with the lever held at ManualUp, a manual
\* toggle pending and LED frames sent before
C11_Witness ==
    /\ rx = [arbitration_id |-> LEVER_MESSAGE_ID, data |-> <<0, 1, POS_UP>>]
    /\ ~decoded
    /\ current_gear = "M2"
    /\ current_lever_position = POS_MANUAL_UP
    /\ ~lever_returned_to_manual_center
    /\ tx # NoFrame
    /\ tx.data[3] = LED_CODE_MANUAL

---------------------------------------------------------------------------
\* the LED code the specification gives each gear
LedCodeOfGear(gear) ==
    CASE gear = "P" -> \h20
      [] gear = "R" -> \h40
      [] gear = "N" -> \h60
      [] gear = "D" -> \h80
      [] gear \in ManualGears -> \h81

\* C14: every LED frame sent has arbitration ID 0x3FD and exactly 5 data bytes
\* [crc, counter, led_code, 0x00, 0x00] with the stored counter and the LED
\* code of the gear it was sent for: 0x20 Park, 0x40 Reverse, 0x60 Neutral,
\* 0x80 Drive, 0x81 for M1..M8; the flash bit 0x08 is never set.
C14_LedFrameFormat ==
    [][tx' # tx
        => /\ tx'.arbitration_id = LED_MESSAGE_ID
           /\ Len(tx'.data) = 5
           /\ tx'.data[2] = gws_counter'
           /\ tx'.data[3] = LedCodeOfGear(current_gear')
           /\ tx'.data[4] = 0
           /\ tx'.data[5] = 0
           /\ ~BitSet(tx'.data[3], FLASH_BIT)]_vars

\* an LED frame sent for M8
C14_Witness ==
    /\ current_gear = "M8"
    /\ tx.arbitration_id = LED_MESSAGE_ID
    /\ tx.data[2] = gws_counter
    /\ tx.data[3] = \h81

\* an LED frame sent for Park
C14_WitnessPark ==
    /\ current_gear = "P"
    /\ tx.arbitration_id = LED_MESSAGE_ID
    /\ tx.data[3] = \h20

---------------------------------------------------------------------------
\* the counter byte that follows `counter` in the cycle 1, 2, ..., 14, 1, ...
CounterAfter(counter) == IF counter = 14 THEN 1 ELSE counter + 1

\* C15: from a freshly constructed encoder the counter bytes of the LED frames
\* sent one after the other are 1, 2, ..., 14, 1, 2, ...: the first frame
\* carries 1, each later frame the previous counter plus one, and the frame
\* after counter 14 carries 1.
C15_CounterSequence ==
    [][tx' # tx
        => tx'.data[2] = IF tx = NoFrame THEN 1 ELSE CounterAfter(tx.data[2])]_vars

\* what the encoder does when its calls do not overlap: the first frame
\* carries 2, and from there the cycle is as stated
CounterSequenceFromTwo ==
    [][tx' # tx
        => tx'.data[2] = IF tx = NoFrame THEN 2 ELSE CounterAfter(tx.data[2])]_vars

\* the frame after counter 14 was sent
CounterWrapped == tx # NoFrame /\ tx.data[2] = 1

---------------------------------------------------------------------------
---------------------------------------------------------------------------
\* a step in which send_gear_led was called: by the LED thread, or by the
\* handler for a message it decoded
LedThreadCall == led_pc = "send" /\ led_pc' = "check"
HandlerCall == HandlerStep /\ decoded' /\ rx'.arbitration_id = LEVER_MESSAGE_ID

\* C18: the LED encoder has no failure mode: for every gear the system can
\* hold, every call of send_gear_led advances the counter and puts exactly one
\* frame on the bus.
C18_NoFailureMode ==
    [][(LedThreadCall \/ (HandlerCall /\ <<rx, leverVars, gws_counter>>' # <<rx, leverVars, gws_counter>>))
        => /\ gws_counter' = CounterAfter(gws_counter)
           /\ tx' # tx
           /\ tx'.data[2] = gws_counter'
           /\ tx'.data[3] = LedCodeOfGear(current_gear')]_vars

\* while the bus is open the calls do not fail
NoFailureWhileOpen ==
    [][(bmw_bus = "open" /\ (LedThreadCall \/ HandlerCall))
        => (vars' = vars \/ (tx' # tx /\ tx'.data[2] = gws_counter'))]_vars

\* the LED thread called send_gear_led after the bus was shut down: the
\* counter moved on and no frame was sent
SendAfterShutdown ==
    /\ bmw_bus = "shutdown"
    /\ led_pc = "check"
    /\ tx # NoFrame
    /\ tx.data[2] # gws_counter

---------------------------------------------------------------------------
\* the frame last handled, with the CRC byte that matches its other bytes
RxWithGoodCrc(data) == [data EXCEPT ![1] = cache_197[data[2]][data[3]][data[4]]]

\* C12: a CRC mismatch is fail-open: for every lever payload of at least 4
\* bytes and every prior state, the gear, the tracker state and the reported
\* position and buttons after the frame are those the same frame leaves with
\* a matching CRC byte; a mismatching frame is never dropped.
C12_CrcFailOpen ==
    [][Len(rx'.data) >= 4
        => /\ decoded'
           /\ State' = Decoded(RxWithGoodCrc(rx'.data), arrival_age')]_vars

\* a frame with a mismatching CRC byte fired the transition Neutral to Reverse
C12_Witness ==
    /\ Len(rx.data) = 4
    /\ rx.data[1] # cache_197[rx.data[2]][rx.data[3]][rx.data[4]]
    /\ decoded
    /\ "primary" \in fired
    /\ gear_before = "N"
    /\ current_gear = "R"

---------------------------------------------------------------------------
\* C16: the stored gws_counter in every reachable state, and the counter byte
\* of every LED frame sent, lie in [0x01, 0x0E] under every interleaving of
\* the message handler and the LED thread inside send_gear_led.
C16_CounterInRange ==
    /\ gws_counter \in 1..14
    /\ tx # NoFrame => tx.data[2] \in 1..14

\* with each send_gear_led call taken as one step the range is kept
CounterInRangeAtomic ==
    /\ gws_counter \in GWS_COUNTER_INIT..GWS_COUNTER_MAX
    /\ tx # NoFrame => tx.data[2] \in GWS_COUNTER_INIT..GWS_COUNTER_MAX

\* an LED frame with counter byte 15 was sent
CounterByteFifteen == tx # NoFrame /\ tx.data[2] = 15

---------------------------------------------------------------------------
\* C19: the receiver thread is the only writer of the shared gear state: every
\* write to current_gear or manual_gear is made by the thread that handles the
\* lever frames; the LED thread, the gamepad thread and the GUI never write.
C19_ReceiverSoleWriter ==
    [][(current_gear' # current_gear \/ manual_gear' # manual_gear)
        => writer' = "receiver"]_vars

\* the gamepad thread replaced a Manual gear the receiver had set
GamepadWroteGear ==
    /\ writer = "gamepad"
    /\ current_gear = "D"
    /\ gear_before = "M1"

\* C20: a reader of the pair (current_gear, manual_gear) never sees a Manual
\* gear 'Mn' together with a manual_gear other than n, at any point of a
\* manual up/down or side-toggle transition.
C20_ConsistentSnapshot ==
    StartsWithM(seen[1]) => seen[1] = MGear(seen[2])

\* the pair as it stands between the two writes of a ManualUp toggle
TornPairSeen == seen = <<"M1", 2>> /\ pending # <<>>

\* when the receiver is not in the middle of a frame and the gamepad has not
\* written, the stored pair is consistent
PairConsistentAtRest ==
    (pending = <<>> /\ writer # "gamepad" /\ StartsWithM(current_gear))
        => current_gear = MGear(manual_gear)

---------------------------------------------------------------------------
\* Startup

\* no frame of 4 bytes was decoded yet: decode_lever_message replaces the
\* 'Unknown' of BMWState() by a name of lever_position_map or by
\* 'Unknown (0x..)'
Fresh == lever_position = "Unknown"

\* the fields BMWState() and BMWLeverController(logger) start with
FreshlyConstructed ==
    /\ current_gear = "N"
    /\ manual_gear = 1
    /\ current_lever_position = POS_CENTER
    /\ previous_lever_position = POS_CENTER
    /\ lever_returned_to_center
    /\ lever_returned_to_manual_center

\* C25: until the first frame of 4 bytes is decoded the state is the freshly
\* constructed one (gear N, manual level 1, both tracked positions Center,
\* both returned flags set), and the first button-free frame decoded leaves
\* the gear at N and the level at 1 whatever position it carries.
C25_FreshStart ==
    [][/\ Fresh => FreshlyConstructed
       /\ (Fresh /\ ButtonFree') => (current_gear' = "N" /\ manual_gear' = 1 /\ fired' = {})]_vars

\* the first frame was decoded: it carried Up, outside any debounce window,
\* and the gear is still N
C25_Witness ==
    /\ ButtonFree
    /\ current_lever_position = POS_UP
    /\ previous_lever_position = POS_CENTER
    /\ ~lever_returned_to_center
    /\ ~lever_returned_to_manual_center
    /\ toggle_age = TOGGLE_TIMEOUT
    /\ current_gear = "N"
    /\ gear_before = "N"

\* the first frame carried Side: the side flag is still set, nothing fired
C25_WitnessSide ==
    /\ ButtonFree
    /\ current_lever_position = POS_SIDE
    /\ previous_lever_position = POS_CENTER
    /\ ~lever_returned_to_center
    /\ lever_returned_to_manual_center
    /\ fired = {}
    /\ current_gear = "N"

---------------------------------------------------------------------------
\* Position bookkeeping

\* the state with the transition keyed by the position the tracker holds
\* before the frame
KeyedByCurrent == [State EXCEPT !.previous_lever_position = current_lever_position]

\* C26: every lever frame of at least 4 bytes, debounced or overridden by a
\* button or not, moves current_lever_position into previous_lever_position
\* and stores its own raw position (the one lever_position names) as
\* current_lever_position; a transition fired by the frame is the table's
\* entry for the position the preceding frame stored.
C26_PositionBookkeeping ==
    [][decoded' =>
         /\ previous_lever_position' = current_lever_position
         /\ current_lever_position' \in Positions
         /\ lever_position' = LeverPositionName(current_lever_position')
         /\ "primary" \in fired' =>
                /\ current_lever_position' = POS_CENTER
                /\ current_gear' = ProcessToggleTransition(KeyedByCurrent).current_gear
         /\ "manual" \in fired' =>
                /\ current_lever_position' = POS_SIDE
                /\ current_gear' = ProcessToggleManualTransition(KeyedByCurrent).current_gear]_vars

\* a frame discarded by the debounce gate moved the tracker from Up to Center
C26_Witness ==
    /\ ButtonFree
    /\ InWindow
    /\ fired = {}
    /\ previous_lever_position = POS_UP
    /\ current_lever_position = POS_CENTER

\* a frame consumed by the park button moved the tracker from Down to Center
C26_WitnessPark ==
    /\ decoded
    /\ park_button = "Pressed"
    /\ previous_lever_position = POS_DOWN
    /\ current_lever_position = POS_CENTER
    /\ current_gear = "P"
    /\ gear_before = "D"

\* a Center frame fired the transition of the Down frame before it
C26_WitnessFired ==
    /\ ButtonFree
    /\ fired = {"primary"}
    /\ previous_lever_position = POS_DOWN
    /\ gear_before = "R"
    /\ current_gear = "N"

---------------------------------------------------------------------------
\* Frames discarded by the timeout check

\* the frame of this step took the unlock or the park branch
OverrideTaken ==
    /\ current_lever_position' = POS_CENTER
    /\ \/ park_button' = "Pressed"
       \/ unlock_button' = "Pressed" /\ current_gear = "P"

\* the frame of this step returned at the timeout check
Discarded == decoded' /\ arrival_age' < TOGGLE_TIMEOUT /\ ~OverrideTaken

\* the tracker holds a Center frame whose return was not recorded
CenterNotRecorded == current_lever_position = POS_CENTER /\ ~lever_returned_to_center

\* C27: a frame discarded by the debounce gate leaves both returned flags,
\* last_toggle_time and the gear unchanged; so after a Center frame whose
\* return was lost that way, the next button-free Center frame outside the
\* window fires the primary processor keyed by Center: no gear change, the
\* flag set, and a new debounce window.
C27_DiscardedReturn ==
    [][/\ Discarded =>
            /\ lever_returned_to_center' = lever_returned_to_center
            /\ lever_returned_to_manual_center' = lever_returned_to_manual_center
            /\ toggle_age' = arrival_age'
            /\ fired' = {}
            /\ current_gear' = current_gear
            /\ manual_gear' = manual_gear
       /\ (/\ CenterNotRecorded
           /\ ButtonFree'
           /\ current_lever_position' = POS_CENTER
           /\ arrival_age' >= TOGGLE_TIMEOUT) =>
            /\ fired' = {"primary"}
            /\ previous_lever_position' = POS_CENTER
            /\ current_gear' = current_gear
            /\ manual_gear' = manual_gear
            /\ lever_returned_to_center'
            /\ toggle_age' = 0]_vars

\* the lever left Center for Side outside the window, the Side frame opened
\* a window, and the Center frame that followed was discarded inside it
C27_WitnessDiscarded ==
    /\ run.frames = <<POS_SIDE, POS_CENTER>>
    /\ ~run.late
    /\ ButtonFree
    /\ InWindow
    /\ fired = {}
    /\ CenterNotRecorded

\* the Center frame after a discarded one fired keyed by Center: the
\* excursion to Side left Drive as it was
C27_Witness ==
    /\ ButtonFree
    /\ fired = {"primary"}
    /\ previous_lever_position = POS_CENTER
    /\ current_lever_position = POS_CENTER
    /\ lever_returned_to_center
    /\ toggle_age = 0
    /\ gear_before = "D"
    /\ current_gear = "D"

---------------------------------------------------------------------------
\* The two rest points

\* the frame of this step reached the rest-point blocks (lines 86-100)
Evaluated == decoded' /\ arrival_age' >= TOGGLE_TIMEOUT /\ ~OverrideTaken

\* C28 as stated: every frame at Center clears the side-center returned flag
\* and every frame at Side the primary one, and from Drive at rest a Side
\* frame and then a Center frame, both outside the debounce window, leave
\* Drive again.
C28_TwoRestPoints_AsStated ==
    [][/\ (decoded' /\ current_lever_position' = POS_CENTER)
            => ~lever_returned_to_manual_center'
       /\ (decoded' /\ current_lever_position' = POS_SIDE)
            => ~lever_returned_to_center'
       /\ (run'.frames = <<POS_SIDE, POS_CENTER>> /\ run'.gear = "D" /\ run'.late)
            => current_gear' = "D"]_vars

\* C28 amended: a frame at Center that reaches the rest-point blocks clears
\* the side-center returned flag and such a frame at Side clears the primary
\* one; from Drive at rest with the side-center flag clear, a Side frame
\* fires the manual processor keyed by Center (D -> M1) and a Center frame
\* outside the window it opened fires the primary one keyed by Side
\* (M1 -> D).
C28_TwoRestPoints ==
    [][/\ (Evaluated /\ current_lever_position' = POS_CENTER)
            => ~lever_returned_to_manual_center'
       /\ (Evaluated /\ current_lever_position' = POS_SIDE)
            => ~lever_returned_to_center'
       /\ (run'.frames = <<POS_SIDE>> /\ run'.gear = "D" /\ ~run'.side_returned)
            => (fired' = {"manual"} /\ current_gear' = MGear(1))
       /\ (/\ run'.frames = <<POS_SIDE, POS_CENTER>>
           /\ run'.gear = "D" /\ ~run'.side_returned /\ run'.late)
            => (fired' = {"primary"} /\ gear_before' = MGear(1) /\ current_gear' = "D")]_vars

\* Center -> Side -> Center from Drive, both arrivals outside the window:
\* the second side toggle has left Drive
C28_Witness ==
    /\ run.frames = <<POS_SIDE, POS_CENTER>>
    /\ run.gear = "D"
    /\ ~run.side_returned
    /\ run.late
    /\ fired = {"primary"}
    /\ gear_before = MGear(1)
    /\ current_gear = "D"

\* the same movement started with the side-center flag still set: one side
\* toggle, on the arrival at Center
C28_WitnessFlagSet ==
    /\ run.frames = <<POS_SIDE, POS_CENTER>>
    /\ run.gear = "D"
    /\ run.side_returned
    /\ run.late
    /\ current_gear = MGear(1)

---------------------------------------------------------------------------
\* Debounce windows opened without a gear change

\* C29: every rest-point edge detection sets last_toggle_time, also when the
\* processor finds no table entry for the preceding position (Center or an
\* unmapped position) or its handler does nothing (ManualUp at M8, ManualUp
\* or ManualDown outside Manual): the gear stays and a debounce window
\* opens; a button-free return to Center from Up, UpPlus or Down that
\* arrives inside an open window changes no gear.
C29_WindowWithoutChange ==
    [][/\ fired' # {} => toggle_age' = 0
       /\ (fired' # {} /\ previous_lever_position' = POS_UNMAPPED)
            => current_gear' = current_gear
       /\ (fired' = {"primary"} /\ previous_lever_position' = POS_CENTER)
            => current_gear' = current_gear
       /\ (fired' = {"manual"} /\ previous_lever_position' = POS_MANUAL_UP
             /\ current_gear = MGear(MANUAL_GEARS))
            => (current_gear' = current_gear /\ manual_gear' = manual_gear)
       /\ (fired' = {"manual"} /\ ~StartsWithM(current_gear)
             /\ previous_lever_position' \in {POS_MANUAL_UP, POS_MANUAL_DOWN})
            => (current_gear' = current_gear /\ manual_gear' = manual_gear)
       /\ (/\ ButtonFree'
           /\ arrival_age' < TOGGLE_TIMEOUT
           /\ previous_lever_position' \in {POS_UP, POS_UP_PLUS, POS_DOWN}
           /\ current_lever_position' = POS_CENTER)
            => (fired' = {} /\ current_gear' = current_gear)]_vars

\* ManualUp returned to side-center at M8: nothing changed, a window opened
C29_Witness ==
    /\ ButtonFree
    /\ fired = {"manual"}
    /\ previous_lever_position = POS_MANUAL_UP
    /\ gear_before = MGear(MANUAL_GEARS)
    /\ current_gear = MGear(MANUAL_GEARS)
    /\ toggle_age = 0

\* ManualUp returned to side-center in Neutral
C29_WitnessNotManual ==
    /\ ButtonFree
    /\ fired = {"manual"}
    /\ previous_lever_position = POS_MANUAL_UP
    /\ gear_before = "N"
    /\ current_gear = "N"
    /\ toggle_age = 0

\* a return from an unmapped position opened a window
C29_WitnessUnmapped ==
    /\ ButtonFree
    /\ fired = {"primary"}
    /\ previous_lever_position = POS_UNMAPPED
    /\ current_gear = gear_before
    /\ toggle_age = 0

\* Down returned to Center in Reverse inside a window the Center rest point
\* opened: the gear is still Reverse
C29_WitnessLost ==
    /\ ButtonFree
    /\ InWindow
    /\ lever_returned_to_center
    /\ previous_lever_position = POS_DOWN
    /\ current_lever_position = POS_CENTER
    /\ fired = {}
    /\ current_gear = "R"

---------------------------------------------------------------------------
\* Gear values

\* C30: after any sequence of lever frames current_gear is one of P, R, N, D,
\* M1..M8, a Manual gear Mn goes with manual_gear = n, and a step from a
\* non-Manual gear into Manual ends in M1 with manual_gear = 1 whatever
\* level manual_gear held before.
C30_GearWellFormed ==
    [][/\ current_gear' \in Gears
       /\ StartsWithM(current_gear') => current_gear' = MGear(manual_gear')
       /\ (~StartsWithM(current_gear) /\ StartsWithM(current_gear'))
            => (current_gear = "D" /\ current_gear' = MGear(1) /\ manual_gear' = 1)]_vars

\* Manual was left at level 3: Drive, with manual_gear still 3
C30_WitnessLeft ==
    /\ current_gear = "D"
    /\ gear_before = MGear(3)
    /\ manual_gear = 3

\* Manual entered from Drive by the side toggle
C30_Witness ==
    /\ ButtonFree
    /\ fired # {}
    /\ gear_before = "D"
    /\ current_gear = MGear(1)
    /\ manual_gear = 1

---------------------------------------------------------------------------
\* The CRC byte of the LED frames

\* crc8_status over the four bytes behind the CRC byte of a sent frame
RecomputedCrc == Crc8(SubSeq(tx.data, 2, Len(tx.data)), CRC_XOR_3FD)

\* C24: byte 0 of every LED frame the encoder sends, for every counter in
\* 1..14 and every LED code, is the CRC-8 (polynomial 0x1D, init 0x00,
\* output XOR 0x70) of the four bytes [counter, led_code, 0x00, 0x00]
\* behind it.
C24_CrcRoundTrip ==
    tx # NoFrame =>
        /\ Len(tx.data) = 5
        /\ tx.data[2] \in 1..GWS_COUNTER_MAX
        /\ tx.data[1] = RecomputedCrc

\* with crccheck installed the stamped byte is the recomputed one
CrcRoundTripWithCrccheck ==
    (tx # NoFrame /\ CRCCHECK_AVAILABLE) => tx.data[1] = RecomputedCrc

\* without crccheck the Neutral frame with counter 2 carries 0x62, the byte
\* sum, where the CRC is 0x07
MockCrcStamped ==
    /\ ~CRCCHECK_AVAILABLE
    /\ tx.data = <<\h62, 2, \h60, 0, 0>>
    /\ RecomputedCrc = \h07

---------------------------------------------------------------------------
\* Shutdown

\* the step that sets the shutdown flag
ShutdownStep == running /\ ~running'

\* C21: the shutdown sends exactly one LED frame, with the Park code 0x20,
\* after the flag is set and before the bus is closed, and no LED frame is
\* sent after it.
C21_FinalParkFrame ==
    [][/\ ShutdownStep =>
            /\ bmw_bus' = "shutdown"
            /\ tx'.arbitration_id = LED_MESSAGE_ID
            /\ tx'.data[3] = gear_led_codes.P
            /\ gws_counter' = NextCounter(gws_counter)
       /\ ~running => tx' = tx]_vars

\* the bus was shut down and the last LED frame sent is the Drive frame
ClosedWithoutParkFrame ==
    /\ ~running
    /\ bmw_bus = "shutdown"
    /\ current_gear = "D"
    /\ tx.arbitration_id = LED_MESSAGE_ID
    /\ tx.data[3] = gear_led_codes.D

\* closeEvent and CANController.shutdown send nothing: no frame leaves the
\* application once the flag is cleared
NoFrameOnShutdown ==
    [][(ShutdownStep \/ ~running) => tx' = tx]_vars

---------------------------------------------------------------------------
\* Termination of the two loops

\* C22: once running is False both loops exit: recv returns within its
\* timeout also when no frame arrives, and each loop tests the flag before
\* its next iteration.
C22_LoopsExit == (~running) ~> (led_pc = "exit" /\ bmw_pc = "exit")

\* both threads have left their loops after the shutdown
C22_Witness ==
    /\ ~running
    /\ bmw_bus = "shutdown"
    /\ led_pc = "exit"
    /\ bmw_pc = "exit"

---------------------------------------------------------------------------
\* The periodic LED update

\* the LED thread handed an LED frame for the current gear to the bus
LedFrameSent ==
    /\ LedThreadCall
    /\ gws_counter' = CounterAfter(gws_counter)
    /\ tx'.arbitration_id = LED_MESSAGE_ID
    /\ tx'.data[2] = gws_counter'
    /\ tx'.data[3] = LedCodeOfGear(current_gear)

\* the gears the Up and Down excursions of LiveMessages reach
LiveGears == {"N", "R", "D"}

C23_WitnessReverse ==
    /\ running
    /\ current_gear = "R"
    /\ gear_before = "R"
    /\ tx.data[3] = gear_led_codes.R
    /\ tx.data[2] = gws_counter
    /\ led_pc = "check"

---------------------------------------------------------------------------
\* The arbitration ID test of the handler

C31_WitnessSent ==
    /\ rx.arbitration_id = LEVER_MESSAGE_ID
    /\ decoded
    /\ fired = {"primary"}
    /\ gear_before = "N"
    /\ current_gear = "R"
    /\ tx.data[2] = gws_counter
    /\ tx.data[3] = gear_led_codes.R

---------------------------------------------------------------------------
\* Sends and the shutdown of the bus

\* C32: no thread calls send on the bus after shutdown closed it: every
\* send_gear_led call that reaches bmw_bus.send, from the LED thread or from
\* the handler, is made while the bus has not been shut down.
C32_NoSendAfterShutdown ==
    [][(LedThreadCall \/ HandlerCall) => bmw_bus # "shutdown"]_vars

\* the handler, which runs in the thread of closeEvent, does not send on a
\* closed bus
HandlerSendsBeforeShutdown ==
    [][(HandlerStep /\ gws_counter' # gws_counter) => bmw_bus = "open"]_vars

---------------------------------------------------------------------------
\* The gamepad loop of the two integrated controllers, next to the lever
\* frames that shift the gear from the CAN thread

SPEED_GEARS == 4

\* analog_stick_right.y in percent of full deflection
StickY == {-100, 0, 100}

Min(a, b) == IF a <= b THEN a ELSE b
Max(a, b) == IF a >= b THEN a ELSE b

\* _calculate_throttle of the optimized controller, speed_limit in percent:
\* the result is in 1/10000 of full throttle
CalculateThrottle(gear, state) ==
    LET speed_limit == state.speed_gear * 25
        limited == IF gear = "D" THEN Min(0, state.throttle_input)
                   ELSE IF gear = "R" THEN Max(0, state.throttle_input)
                   ELSE 0
    IN limited * speed_limit

\* the same computation inside gamepad_loop of the first integrated controller
GamepadLoopThrottle(gear, state) ==
    LET speed_limit == state.speed_gear * 25
        limited == IF gear = "D" THEN Max(0, state.throttle_input)
                   ELSE IF gear = "R" THEN Min(0, state.throttle_input)
                   ELSE 0
    IN limited * speed_limit

\* the sign the Drive branch of each controller lets through
DriveSign == [optimized |-> -1, plain |-> 1]

\* L2 and R2 pressed since the last iteration: speed gear down, then up
SpeedGearAfter(speed_gear, l2, r2) ==
    LET down == IF l2 THEN Max(1, speed_gear - 1) ELSE speed_gear
    IN IF r2 THEN Min(SPEED_GEARS, down + 1) ELSE down

\* button B, A, X or Y of the optimized controller; "-" is none of them
GearAfterButton(gear, button) ==
    IF program = "optimized" /\ button \in DOMAIN gamepad_gears
    THEN gamepad_gears[button] ELSE gear

\* one iteration of gamepad_loop whose read_data succeeded
GamepadLoop ==
    \E y \in StickY, l2 \in BOOLEAN, r2 \in BOOLEAN,
       button \in {"-"} \cup DOMAIN gamepad_gears :
        LET state == [throttle_input |-> -y,
                      speed_gear |-> SpeedGearAfter(piracer_state.speed_gear, l2, r2)]
            gear == GearAfterButton(current_gear, button)
        IN /\ running
           /\ piracer_state' = state
           /\ current_gear' = gear
           /\ throttle' = IF program = "optimized"
                          THEN CalculateThrottle(gear, state)
                          ELSE GamepadLoopThrottle(gear, state)
           /\ program' = program
           /\ UNCHANGED <<manual_gear, lever_position, park_button, unlock_button,
                          current_lever_position, previous_lever_position,
                          lever_returned_to_center, lever_returned_to_manual_center,
                          toggle_age, arrival_age, decoded, fired, gear_before, run,
                          busVars, raceVars, sharedVars, buildVars, bmw_pc,
                          toggleVars, cacheVars>>

\* the lever frames of the excursions that reach every gear, and the park button
DriveFrames ==
    {<<0, 1, p, 0>> : p \in {POS_CENTER, POS_UP, POS_DOWN, POS_SIDE, POS_MANUAL_UP}}
        \cup {<<0, 1, POS_CENTER, 1>>}

\* a lever frame decoded in the CAN thread between two iterations
DriveFrame == \E data \in DriveFrames : Frame(data, TOGGLE_TIMEOUT)

\* either controller, as constructed
InitThrottle ==
    /\ current_gear = "N"
    /\ manual_gear = 1
    /\ lever_position = "Unknown"
    /\ park_button = "Released"
    /\ unlock_button = "Released"
    /\ current_lever_position = POS_CENTER
    /\ previous_lever_position = POS_CENTER
    /\ lever_returned_to_center = TRUE
    /\ lever_returned_to_manual_center = TRUE
    /\ toggle_age = TOGGLE_TIMEOUT
    /\ arrival_age = TOGGLE_TIMEOUT
    /\ decoded = FALSE
    /\ fired = {}
    /\ gear_before = "N"
    /\ run = NoRun
    /\ rx = NoMessage
    /\ gws_counter = GWS_COUNTER_INIT
    /\ bmw_bus = "open"
    /\ running = TRUE
    /\ tx = NoFrame
    /\ led_pc = "check"
    /\ pc = [t \in Callers |-> "idle"]
    /\ loc = [t \in Callers |-> NoLocals]
    /\ writer = "-"
    /\ pending = <<>>
    /\ seen = <<"N", 1>>
    /\ CRCCHECK_AVAILABLE = TRUE
    /\ bmw_pc = "check"
    /\ program \in {"optimized", "plain"}
    /\ piracer_state = PiRacerState
    /\ throttle = 0
    /\ toggle_controller = BMWToggleGearController
    /\ crc_calculator = CRCCalculator
    /\ crc_call = NoCall

NextThrottle == GamepadLoop \/ DriveFrame

SpecThrottle == InitThrottle /\ [][NextThrottle]_vars

---------------------------------------------------------------------------
\* Throttle and gear

\* C33: in the integrated controllers the throttle commanded to the vehicle is
\* zero whenever the current gear is neither Drive nor Reverse, and in Drive
\* and in Reverse it never has the sign reserved for the other of the two
C33_ThrottleGated ==
    /\ current_gear \notin {"D", "R"} => throttle = 0
    /\ current_gear = "D" => throttle * DriveSign[program] >= 0
    /\ current_gear = "R" => throttle * DriveSign[program] <= 0

\* the command of an iteration is gated by the gear that iteration read
CommandGatedWhenIssued ==
    [][driveVars' # driveVars =>
         /\ current_gear' \notin {"D", "R"} => throttle' = 0
         /\ current_gear' = "D" => throttle' * DriveSign[program] >= 0
         /\ current_gear' = "R" => throttle' * DriveSign[program] <= 0]_vars

\* the lever has shifted to Park and the vehicle still has the throttle of Drive
ThrottleLeftInPark == current_gear = "P" /\ throttle # 0 /\ decoded

\* a manual gear with the throttle the last iteration commanded in Drive
ThrottleLeftInManual == StartsWithM(current_gear) /\ throttle # 0

---------------------------------------------------------------------------
\* The standalone toggle controller, BMWToggleGearController, on a connected
\* bus: its monitor thread decoding frames, and shutdown

\* class LeverPosition(Enum)
LeverPosition ==
    [CENTER |-> \h0E, UP_ONE |-> \h1E, UP_TWO |-> \h2E, DOWN_ONE |-> \h3E,
     DOWN_TWO |-> \h4E, SIDE_CENTER |-> \h7E, SIDE_UP |-> \h5E, SIDE_DOWN |-> \h6E]

\* LeverPosition(lever_pos_raw) raises ValueError outside these values
LeverPositionValues == {LeverPosition[n] : n \in DOMAIN LeverPosition}

\* self.gear_led_codes, keyed by the value of GearState
toggle_gear_led_codes ==
    [P |-> \h20, R |-> \h40, N |-> \h60, D |-> \h80, S |-> \h81, M |-> \h81]

\* time between two frames of the lever
FrameGapMs == 40
FrameGaps == {FrameGapMs, toggle_timeout}

Aged(age, dt, limit) == IF age + dt >= limit THEN limit ELSE age + dt

\* update_gear_led with the bus connected: the counter advances and the
\* frame carries the code of the gear
UpdateGearLed(c) ==
    [c EXCEPT !.gws_counter = IF c.gws_counter < 14 THEN c.gws_counter + 1 ELSE 1,
              !.led_code = toggle_gear_led_codes[c.current_gear]]

HandleParkButtonToggle(c) ==
    IF c.park_button_age < debounce_time THEN c
    ELSE LET timed == [c EXCEPT !.park_button_age = 0]
         IN IF c.park_locked
            THEN UpdateGearLed([timed EXCEPT !.park_locked = FALSE, !.current_gear = "N"])
            ELSE UpdateGearLed([timed EXCEPT !.park_locked = TRUE, !.current_gear = "P"])

ProcessGearChange(c) ==
    LET prev == c.previous_lever_position
        gear == c.current_gear
        changed ==
            IF prev = LeverPosition.UP_ONE
            THEN IF gear = "N" THEN [c EXCEPT !.current_gear = "R"]
                 ELSE IF gear = "D" THEN [c EXCEPT !.current_gear = "N"]
                 ELSE IF gear = "R" THEN [c EXCEPT !.current_gear = "N"]
                 ELSE c
            ELSE IF prev = LeverPosition.DOWN_ONE
            THEN IF gear = "N" THEN [c EXCEPT !.current_gear = "D"]
                 ELSE IF gear = "R" THEN [c EXCEPT !.current_gear = "N"]
                 ELSE c
            ELSE IF prev = LeverPosition.SIDE_CENTER
            THEN IF gear = "D" THEN [c EXCEPT !.current_gear = "S"]
                 ELSE IF gear = "S"
                 THEN [c EXCEPT !.current_gear = "M", !.manual_gear_level = 1]
                 ELSE IF gear = "M" THEN [c EXCEPT !.current_gear = "D"]
                 ELSE [c EXCEPT !.current_gear = "S"]
            ELSE c
    IN UpdateGearLed(changed)

HandleLeverToggle(c, lever_pos) ==
    IF c.toggle_age < toggle_timeout THEN c
    ELSE IF c.park_locked THEN c
    ELSE IF /\ c.previous_lever_position # LeverPosition.CENTER
            /\ lever_pos = LeverPosition.CENTER
            /\ c.lever_returned_to_center
    THEN [ProcessGearChange(c) EXCEPT !.toggle_age = 0]
    ELSE c

HandleManualGearToggle(c, lever_pos) ==
    IF c.current_gear \notin {"M", "S"} THEN c
    ELSE IF c.toggle_age < toggle_timeout THEN c
    ELSE IF lever_pos = LeverPosition.SIDE_UP
    THEN IF c.current_gear = "M" /\ c.manual_gear_level < 8
         THEN [c EXCEPT !.previous_lever_position = LeverPosition.SIDE_UP]
         ELSE IF c.current_gear = "S"
         THEN UpdateGearLed([c EXCEPT !.current_gear = "M", !.manual_gear_level = 1])
         ELSE c
    ELSE IF lever_pos = LeverPosition.SIDE_DOWN
    THEN IF c.current_gear = "M" /\ c.manual_gear_level > 1
         THEN [c EXCEPT !.previous_lever_position = LeverPosition.SIDE_DOWN]
         ELSE IF c.current_gear = "S"
         THEN UpdateGearLed([c EXCEPT !.current_gear = "M", !.manual_gear_level = 1])
         ELSE c
    ELSE IF /\ lever_pos = LeverPosition.SIDE_CENTER
            /\ c.previous_lever_position
                   \in {LeverPosition.SIDE_UP, LeverPosition.SIDE_DOWN}
    THEN IF c.previous_lever_position = LeverPosition.SIDE_UP /\ c.current_gear = "M"
         THEN IF c.manual_gear_level < 8
              THEN UpdateGearLed([c EXCEPT !.manual_gear_level = @ + 1,
                                           !.toggle_age = 0])
              ELSE c
         ELSE IF c.previous_lever_position = LeverPosition.SIDE_DOWN
                     /\ c.current_gear = "M"
         THEN IF c.manual_gear_level > 1
              THEN UpdateGearLed([c EXCEPT !.manual_gear_level = @ - 1,
                                           !.toggle_age = 0])
              ELSE c
         ELSE c
    ELSE c

\* decode_can_message(msg) for a frame arriving dt after the one before; the
\* fields rising_edge, park_arrival_age and gear_before record what the
\* handler saw on entry
DecodeCanMessage(c0, msg, dt) ==
    LET c == [c0 EXCEPT !.park_button_age = Aged(@, dt, debounce_time),
                        !.toggle_age = Aged(@, dt, toggle_timeout),
                        !.rising_edge = FALSE,
                        !.park_arrival_age = Aged(c0.park_button_age, dt, debounce_time),
                        !.gear_before = c0.current_gear]
    IN IF msg.arbitration_id # LEVER_MESSAGE_ID \/ Len(msg.data) < 4 THEN c
       ELSE IF msg.data[3] \notin LeverPositionValues THEN c
       ELSE LET lever_pos == msg.data[3]
                park_btn == BitSet(msg.data[4], 1)
                unlock_btn == BitSet(msg.data[4], 2)
                tracked == [c EXCEPT !.previous_lever_position = c.current_lever_position,
                                     !.current_lever_position = lever_pos,
                                     !.lever_returned_to_center =
                                         (lever_pos = LeverPosition.CENTER)]
                edge == park_btn /\ ~c.park_button_pressed
                toggled == IF edge THEN HandleParkButtonToggle(tracked) ELSE tracked
                buttons == [toggled EXCEPT !.park_button_pressed = park_btn,
                                           !.unlock_button_pressed = unlock_btn,
                                           !.rising_edge = edge]
            IN IF buttons.current_gear \in {"M", "S"}
               THEN HandleManualGearToggle(buttons, lever_pos)
               ELSE HandleLeverToggle(buttons, lever_pos)

\* the frames on the bus of the toggle controller
ToggleMessages ==
    {[arbitration_id |-> LEVER_MESSAGE_ID, data |-> <<0, 1, p, b>>] :
         p \in {LeverPosition.CENTER, LeverPosition.UP_ONE, LeverPosition.DOWN_ONE,
                LeverPosition.SIDE_CENTER, LeverPosition.SIDE_DOWN, 0},
         b \in {0, 1}}
        \cup {[arbitration_id |-> LEVER_MESSAGE_ID, data |-> <<0, 1, LeverPosition.UP_ONE>>],
              [arbitration_id |-> LED_MESSAGE_ID,
               data |-> <<0, 1, LeverPosition.UP_ONE, 1>>]}

\* monitor_loop: bus.recv returned a message
ToggleFrame ==
    \E msg \in ToggleMessages, dt \in FrameGaps :
        /\ toggle_controller.running
        /\ toggle_controller' = DecodeCanMessage(toggle_controller, msg, dt)
        /\ UNCHANGED <<leverVars, busVars, raceVars, sharedVars, buildVars, bmw_pc,
                       driveVars, cacheVars>>

\* shutdown() on KeyboardInterrupt
ToggleShutdown ==
    /\ toggle_controller.running
    /\ toggle_controller' =
           UpdateGearLed([toggle_controller EXCEPT !.running = FALSE,
                                                   !.current_gear = "P",
                                                   !.park_locked = TRUE,
                                                   !.rising_edge = FALSE,
                                                   !.gear_before = toggle_controller.current_gear])
    /\ UNCHANGED <<leverVars, busVars, raceVars, sharedVars, buildVars, bmw_pc,
                   driveVars, cacheVars>>

NextToggle == ToggleFrame \/ ToggleShutdown

SpecToggle == Init /\ [][NextToggle]_vars

---------------------------------------------------------------------------
\* Park lock

\* C34: park_locked is true exactly when current_gear is PARK after every
\* complete handler step, and while park_locked is true a frame changes the
\* gear only by a rising edge of the park button, and then to Neutral
C34_ParkLock ==
    /\ [](toggle_controller.park_locked <=> toggle_controller.current_gear = "P")
    /\ [][(toggle_controller.park_locked
               /\ toggle_controller'.current_gear # toggle_controller.current_gear)
            => (toggle_controller'.rising_edge
                    /\ toggle_controller'.current_gear = "N")]_vars

\* the lock follows the gear
ParkLockedIffPark ==
    toggle_controller.park_locked <=> toggle_controller.current_gear = "P"

\* without a rising edge of the park button a frame leaves Park alone, and an
\* edge inside the debounce time does too
ParkLeftOnlyByButton ==
    [][(toggle_controller.park_locked
            /\ toggle_controller'.current_gear # toggle_controller.current_gear)
         => (toggle_controller'.rising_edge
                 /\ toggle_controller'.park_arrival_age >= debounce_time
                 /\ toggle_controller'.current_gear \in {"N", "R", "D", "S"})]_vars

\* one frame has taken the controller from Park to Reverse
ParkToReverse ==
    /\ toggle_controller.gear_before = "P"
    /\ toggle_controller.current_gear = "R"
    /\ toggle_controller.rising_edge

\* an edge of the park button that came too early was swallowed
EdgeDebounced ==
    /\ toggle_controller.rising_edge
    /\ toggle_controller.park_arrival_age < debounce_time
    /\ toggle_controller.gear_before = "P"
    /\ toggle_controller.current_gear = "P"
    /\ toggle_controller.running

---------------------------------------------------------------------------
\* One CRCCalculator called with messages in any order, under both outcomes
\* of the import of crccheck

\* BMW3FDCRC.calc(message_bytes) & 0xFF and BMW197CRC.calc(message_bytes) & 0xFF
\* as the import left them
Calc == [bmw_3fd_crc |-> [m \in CacheMessages |->
                             IF CRCCHECK_AVAILABLE THEN Bmw3fdCrc(m) ELSE Bmw3fdMockCrc(m)],
         bmw_197_crc |-> [m \in CacheMessages |->
                             IF CRCCHECK_AVAILABLE THEN Bmw197Crc(m) ELSE Bmw197MockCrc(m)]]

\* the dict each method keeps
CacheOf == [bmw_3fd_crc |-> "_cache_3fd", bmw_197_crc |-> "_cache_197"]

\* the method: fill the dict when the key is missing, return the entry
CachedCrc(variant, m) ==
    LET cache == crc_calculator[CacheOf[variant]]
        filled == IF cache[m] = Missing THEN [cache EXCEPT ![m] = Calc[variant][m]]
                  ELSE cache
    IN /\ crc_calculator' = [crc_calculator EXCEPT ![CacheOf[variant]] = filled]
       /\ crc_call' = [variant |-> variant, message |-> m, result |-> filled[m]]
       /\ UNCHANGED <<leverVars, busVars, raceVars, sharedVars, buildVars, bmw_pc,
                      driveVars, toggleVars>>

\* CRCCalculator.bmw_3fd_crc(message)
Bmw3fdCrcCall == \E m \in CacheMessages : CachedCrc("bmw_3fd_crc", m)

\* CRCCalculator.bmw_197_crc(message)
Bmw197CrcCall == \E m \in CacheMessages : CachedCrc("bmw_197_crc", m)

\* a fresh calculator on a host with or without crccheck
InitCache ==
    /\ current_gear = "N"
    /\ manual_gear = 1
    /\ lever_position = "Unknown"
    /\ park_button = "Released"
    /\ unlock_button = "Released"
    /\ current_lever_position = POS_CENTER
    /\ previous_lever_position = POS_CENTER
    /\ lever_returned_to_center = TRUE
    /\ lever_returned_to_manual_center = TRUE
    /\ toggle_age = TOGGLE_TIMEOUT
    /\ arrival_age = TOGGLE_TIMEOUT
    /\ decoded = FALSE
    /\ fired = {}
    /\ gear_before = "N"
    /\ run = NoRun
    /\ rx = NoMessage
    /\ gws_counter = GWS_COUNTER_INIT
    /\ bmw_bus = "open"
    /\ running = TRUE
    /\ tx = NoFrame
    /\ led_pc = "check"
    /\ pc = [t \in Callers |-> "idle"]
    /\ loc = [t \in Callers |-> NoLocals]
    /\ writer = "-"
    /\ pending = <<>>
    /\ seen = <<"N", 1>>
    /\ CRCCHECK_AVAILABLE \in BOOLEAN
    /\ bmw_pc = "check"
    /\ program = "optimized"
    /\ piracer_state = PiRacerState
    /\ throttle = 0
    /\ toggle_controller = BMWToggleGearController
    /\ crc_calculator = CRCCalculator
    /\ crc_call = NoCall

NextCache == Bmw3fdCrcCall \/ Bmw197CrcCall

SpecCache == InitCache /\ [][NextCache]_vars

---------------------------------------------------------------------------
\* CRC cache

\* what the last call returned is what `calc` gives for its message
Transparent(calc) ==
    crc_call # NoCall => crc_call.result = calc[crc_call.variant][crc_call.message]

\* every entry of either dict is what `calc` gives for its key
CacheHolds(calc) ==
    \A variant \in DOMAIN CacheOf, m \in CacheMessages :
        crc_calculator[CacheOf[variant]][m] \in {Missing, calc[variant][m]}

\* the CRC-8 of each family, computed afresh
FamilyCrc == [bmw_3fd_crc |-> [m \in CacheMessages |-> Bmw3fdCrc(m)],
              bmw_197_crc |-> [m \in CacheMessages |-> Bmw197Crc(m)]]

\* the two variants never agree on a message
VariantsDiffer ==
    \A m \in CacheMessages :
        LET a == crc_calculator["_cache_3fd"][m]
            b == crc_calculator["_cache_197"][m]
        IN (a # Missing /\ b # Missing) => a # b

\* C35: after any sequence of calls bmw_3fd_crc(m) returns the CRC-8 with
\* output XOR 0x70 of m and bmw_197_crc(m) the CRC-8 with output XOR 0x53 of
\* m, never a value cached for another message or for the other variant, and
\* the two results differ for every m
C35_CacheTransparent ==
    /\ Transparent(FamilyCrc)
    /\ CacheHolds(FamilyCrc)
    /\ VariantsDiffer

\* with crccheck installed all of it holds
CacheTransparentWithCrccheck ==
    CRCCHECK_AVAILABLE => (Transparent(FamilyCrc) /\ CacheHolds(FamilyCrc))

\* in either build the cache returns what the uncached calc returns, and the
\* variants stay apart
CacheTransparentToCalc == Transparent(Calc) /\ CacheHolds(Calc) /\ VariantsDiffer

\* a second call for a message already cached, answered with the byte sum
MockCrcCached ==
    /\ ~CRCCHECK_AVAILABLE
    /\ crc_call.variant = "bmw_3fd_crc"
    /\ crc_call.result = Bmw3fdMockCrc(crc_call.message)
    /\ crc_call.result # Bmw3fdCrc(crc_call.message)
    /\ \A m \in CacheMessages : crc_calculator["_cache_197"][m] # Missing

====
